---- MODULE Spec2Model ----
(***************************************************************************)
(* Entity cache and incremental-update reconciliation of elara-bots/djs.   *)
(*                                                                         *)
(* Wire payloads and entities are partial records: a key that is absent    *)
(* from DOMAIN is a JavaScript property that is not there ('k' in data is  *)
(* "k" \in DOMAIN data; an entity field that was never assigned is not in  *)
(* the entity's DOMAIN).  JavaScript null, true and false are the strings  *)
(* Null, True and False; snowflakes are numeric strings; raw positions,    *)
(* colours and flag bitfields are numbers.                                 *)
(***************************************************************************)
EXTENDS Integers, Sequences, FiniteSets, TLC

VARIABLES
    kind,   \* class of the entity under patch ("none" outside the patch harness)
    ent,    \* the entity under patch
    prev,   \* the entity as it was before the last _patch call
    base,   \* the entity as constructed
    hist,   \* the payloads given to _patch since construction, oldest first
    guilds,   \* client.guilds.cache: guild id -> instance
    channels, \* client.channels.cache: channel id -> instance
    heap,     \* the instances that are still referenced, by reference
    pending,  \* the REST requests awaiting their response
    timers,   \* the guilds whose deferred cleanup is scheduled
    last,     \* the outcome of the last handler or continuation that ran
    steps     \* the number of handlers and continuations that have run

patchVars == <<kind, ent, prev, base, hist>>
cacheVars == <<guilds, channels, heap, pending, timers, last, steps>>
vars == <<kind, ent, prev, base, hist, guilds, channels, heap, pending, timers, last, steps>>

(***************************************************************************)
(* Bounds                                                                  *)
(***************************************************************************)
\* most keys (besides id) a patch payload carries
MaxKeys == 2

(***************************************************************************)
(* JavaScript values                                                       *)
(***************************************************************************)
Null == "null"
True == "true"
False == "false"

EmptyRec == [k \in {} |-> Null]

\* nothing is cached, in flight or scheduled
CacheIdle ==
    /\ guilds = EmptyRec
    /\ channels = EmptyRec
    /\ heap = EmptyRec
    /\ pending = {}
    /\ timers = {}
    /\ last = [op |-> "none"]
    /\ steps = 0

Has(d, k) == k \in DOMAIN d

\* F applied to the value of e, which is computed once
With(e, F(_)) == CHOOSE y \in {F(x) : x \in {e}} : TRUE

\* obj[f] = v
Put(obj, f, v) == (f :> v) @@ obj

\* if (k in data) obj[f] = data[k]
Copy(obj, f, data, k) == IF Has(data, k) THEN Put(obj, f, data[k]) ELSE obj

\* obj[f] ??= v, for the fields that hold strings, null or nothing
Default(obj, f, v) ==
    With(obj, LAMBDA o : IF ~Has(o, f) \/ o[f] = Null THEN Put(o, f, v) ELSE o)

\* obj[f] ??= v, for the fields that hold numbers or nothing
DefaultNum(obj, f, v) == With(obj, LAMBDA o : IF ~Has(o, f) THEN Put(o, f, v) ELSE o)

\* if (k in data) obj[f] = data[k]; else obj[f] ??= v
CopyOrDefault(obj, f, data, k, v) ==
    IF Has(data, k) THEN Put(obj, f, data[k]) ELSE Default(obj, f, v)

\* if (c) obj[f] = v
PutIf(c, obj, f, v) == IF c THEN Put(obj, f, v) ELSE obj

\* if (c) obj[f] = v; else obj[f] ??= w
PutOrDefault(c, obj, f, v, w) == IF c THEN Put(obj, f, v) ELSE Default(obj, f, w)

\* Boolean(data[k])
ToBoolean(data, k) == IF Has(data, k) /\ data[k] = True THEN True ELSE False

\* BigInt(s) for the decimal strings the model uses
ToBigInt(s) ==
    CASE s = "0" -> 0
      [] s = "1" -> 1
      [] s = "2" -> 2
      [] s = "3" -> 3
      [] s = "5" -> 5
      [] s = "8" -> 8
      [] s = "9" -> 9
      [] s = "10" -> 10
      [] s = "11" -> 11
      [] s = "1024" -> 1024
      [] s = "104324673" -> 104324673

(***************************************************************************)
(* Role                                                                    *)
(***************************************************************************)
\* this.tags = null
NullTags == [null |-> True]

\* the keys of data.tags that Role._patch copies by value, and their fields
TagValueField(k) ==
    CASE k = "bot_id" -> "botId"
      [] k = "integration_id" -> "integrationId"
      [] k = "subscription_listing_id" -> "subscriptionListingId"

\* the keys of data.tags whose presence alone sets a field to true
TagFlagField(k) ==
    CASE k = "premium_subscriber" -> "premiumSubscriberRole"
      [] k = "available_for_purchase" -> "availableForPurchase"
      [] k = "guild_connections" -> "guildConnections"

TagValueKeys == {"bot_id", "integration_id", "subscription_listing_id"}
TagFlagKeys == {"premium_subscriber", "available_for_purchase", "guild_connections"}

\* this.tags = data.tags ? {} : null, and the fields copied from data.tags
RoleTags(data) ==
    IF ~Has(data, "tags") THEN NullTags
    ELSE LET t == data.tags
             fields == {TagValueField(k) : k \in DOMAIN t \cap TagValueKeys}
                       \cup {TagFlagField(k) : k \in DOMAIN t \cap TagFlagKeys}
             keyOf(f) == CHOOSE k \in DOMAIN t \cap (TagValueKeys \cup TagFlagKeys) :
                             IF k \in TagValueKeys THEN TagValueField(k) = f
                                                   ELSE TagFlagField(k) = f
         IN [f \in fields |->
                IF keyOf(f) \in TagValueKeys THEN t[keyOf(f)] ELSE True]

\* this.tags = data.tags ? {} : null; ...
RolePatchTags(role, data) == Put(role, "tags", RoleTags(data))

\* A variant that leaves this.id as the constructor left it.
RolePatchWithoutId(role, data) ==
    LET r2 == Copy(role, "name", data, "name")
        r5 == Copy(r2, "rawPosition", data, "position")
    IN RolePatchTags(r5, data)

\* Role._patch
RolePatch(role, data) ==
    LET r1 == Put(role, "id", data.id)
        r2 == Copy(r1, "name", data, "name")
        r3 == Copy(r2, "color", data, "color")
        r4 == Copy(r3, "hoist", data, "hoist")
        r5 == Copy(r4, "rawPosition", data, "position")
        r6 == PutIf(Has(data, "permissions"), r5, "permissions", ToBigInt(data.permissions))
        r7 == Copy(r6, "managed", data, "managed")
        r8 == Copy(r7, "mentionable", data, "mentionable")
        r9 == Copy(r8, "icon", data, "icon")
        r10 == Copy(r9, "unicodeEmoji", data, "unicode_emoji")
        r11 == RolePatchTags(r10, data)
    IN With(r11, LAMBDA r : IF Has(data, "flags") THEN Put(r, "flags", data.flags)
                            ELSE DefaultNum(r, "flags", 0))

\* new Role(client, data, guild)
RoleNew(data, guildId) ==
    RolePatch([deleted |-> False, guild |-> guildId, icon |-> Null, unicodeEmoji |-> Null],
              data)

\* wire key -> entity field
RoleField(k) ==
    CASE k = "position" -> "rawPosition"
      [] k = "unicode_emoji" -> "unicodeEmoji"
      [] OTHER -> k

RoleKeys == {"name", "color", "hoist", "position", "permissions", "managed",
             "mentionable", "icon", "unicode_emoji", "tags", "flags"}

\* the values the model sends under each key of a role payload
RoleVals(k) ==
    CASE k = "name" -> {"a", "b"}
      [] k = "color" -> {255}
      [] k = "hoist" -> {True}
      [] k = "position" -> {0, 1}
      [] k = "permissions" -> {"0", "8"}
      [] k = "managed" -> {True}
      [] k = "mentionable" -> {True, False}
      [] k = "icon" -> {"hash", Null}
      [] k = "unicode_emoji" -> {"emoji"}
      [] k = "tags" -> {[bot_id |-> "9"], [premium_subscriber |-> Null]}
      [] k = "flags" -> {1}

(***************************************************************************)
(* Channels                                                                *)
(***************************************************************************)
GuildChannelTypes == {"GUILD_TEXT", "GUILD_VOICE", "GUILD_CATEGORY", "GUILD_NEWS",
                      "GUILD_STAGE_VOICE", "GUILD_FORUM"}
ThreadChannelTypes == {"GUILD_NEWS_THREAD", "GUILD_PUBLIC_THREAD", "GUILD_PRIVATE_THREAD"}

\* ChannelTypes[data?.type] ?? 'UNKNOWN' (the wire type is written by its name)
ChannelTypeOf(data) ==
    IF Has(data, "type") /\ data.type \in GuildChannelTypes \cup ThreadChannelTypes \cup {"DM"}
    THEN data.type ELSE "UNKNOWN"

\* new Channel(client, data, false): the fields set before any _patch
ChannelInit(data) == [deleted |-> False, type |-> ChannelTypeOf(data)]

\* Channel._patch
ChannelPatch(ch, data) ==
    Copy(Put(ch, "id", data.id), "flags", data, "flags")

\* new PermissionOverwrites(client, data, channel), as the overwrite cache holds it
OverwriteNew(o) == [id |-> o.id, allow |-> ToBigInt(o.allow), deny |-> ToBigInt(o.deny)]

\* permissionOverwrites._add(overwrite) for each entry of the array, on a cleared cache;
\* a later entry with the id of an earlier one patches it
RECURSIVE AddOverwrites(_, _)
AddOverwrites(cache, list) ==
    IF list = <<>> THEN cache
    ELSE AddOverwrites(Put(cache, Head(list).id, OverwriteNew(Head(list))), Tail(list))

\* A variant with cache.clear() moved out of the test for the key.
PatchOverwritesAlwaysClear(ch, data) ==
    IF Has(data, "permission_overwrites")
    THEN Put(ch, "permissionOverwrites", AddOverwrites(EmptyRec, data.permission_overwrites))
    ELSE Put(ch, "permissionOverwrites", EmptyRec)

\* if ('permission_overwrites' in data) { cache.clear(); for ... _add(overwrite) }
PatchOverwrites(ch, data) ==
    IF Has(data, "permission_overwrites")
    THEN Put(ch, "permissionOverwrites", AddOverwrites(EmptyRec, data.permission_overwrites))
    ELSE ch

\* GuildChannel._patch
GuildChannelPatch(ch, data) ==
    LET c1 == ChannelPatch(ch, data)
        c2 == Copy(c1, "name", data, "name")
        c3 == Copy(c2, "rawPosition", data, "position")
        c4 == Copy(c3, "guildId", data, "guild_id")
        c5 == Copy(c4, "parentId", data, "parent_id")
    IN PatchOverwrites(c5, data)

\* new GuildChannel(guild, data, client, false): guild is the id of the guild
\* object handed in, or Null when there is none
GuildChannelInit(data, guild) ==
    LET c1 == With(ChannelInit(data), LAMBDA c :
                  IF guild # Null THEN Put(c, "guildId", guild)
                  ELSE Copy(c, "guildId", data, "guild_id"))
        c2 == Put(c1, "parentId", Null)
    IN Put(c2, "permissionOverwrites", EmptyRec)

\* BaseGuildTextChannel._patch (TextChannel, NewsChannel)
TextChannelPatch(ch, data) ==
    LET c1 == GuildChannelPatch(ch, data)
        c2 == Copy(c1, "topic", data, "topic")
        c3 == PutIf(Has(data, "nsfw"), c2, "nsfw", ToBoolean(data, "nsfw"))
        c4 == Copy(c3, "defaultAutoArchiveDuration", data, "default_auto_archive_duration")
    IN CopyOrDefault(c4, "defaultThreadRateLimitPerUser", data,
                     "default_thread_rate_limit_per_user", Null)

\* new BaseGuildTextChannel(guild, data, client)
TextChannelNew(data, guild) ==
    TextChannelPatch(Put(GuildChannelInit(data, guild), "nsfw", ToBoolean(data, "nsfw")), data)

\* BaseGuildVoiceChannel._patch (VoiceChannel)
VoiceChannelPatch(ch, data) ==
    LET c1 == GuildChannelPatch(ch, data)
        c2 == Copy(c1, "bitrate", data, "bitrate")
        c3 == Copy(c2, "rtcRegion", data, "rtc_region")
        c4 == Copy(c3, "userLimit", data, "user_limit")
        c5 == Copy(c4, "rateLimitPerUser", data, "rate_limit_per_user")
        c6 == Copy(c5, "nsfw", data, "nsfw")
    IN CopyOrDefault(c6, "status", data, "status", Null)

\* new BaseGuildVoiceChannel(guild, data, client)
VoiceChannelNew(data, guild) ==
    VoiceChannelPatch(Put(GuildChannelInit(data, guild), "nsfw", ToBoolean(data, "nsfw")), data)

\* StageChannel._patch
StageChannelPatch(ch, data) == Copy(VoiceChannelPatch(ch, data), "topic", data, "topic")

\* new StageChannel(guild, data, client): the inherited constructor, whose
\* this._patch(data) is StageChannel._patch
StageChannelNew(data, guild) ==
    StageChannelPatch(Put(GuildChannelInit(data, guild), "nsfw", ToBoolean(data, "nsfw")), data)

\* transformAPIGuildForumTag(tag)
TransformTag(tag) == [id |-> tag.id, name |-> tag.name, moderated |-> tag.moderated]

\* A variant that appends the payload's tags to the tags the channel has.
ForumPatchTagsAppending(ch, data) ==
    LET old == IF Has(ch, "availableTags") THEN ch.availableTags ELSE <<>>
    IN IF Has(data, "available_tags")
       THEN Put(ch, "availableTags",
                old \o [i \in DOMAIN data.available_tags |->
                           TransformTag(data.available_tags[i])])
       ELSE Put(ch, "availableTags", old)

\* if ('available_tags' in data) this.availableTags = data.available_tags.map(...);
\* else this.availableTags ??= []
ForumPatchTags(ch, data) ==
    IF Has(data, "available_tags")
    THEN Put(ch, "availableTags",
             [i \in DOMAIN data.available_tags |-> TransformTag(data.available_tags[i])])
    ELSE IF Has(ch, "availableTags") THEN ch ELSE Put(ch, "availableTags", <<>>)

\* ForumChannel._patch
ForumChannelPatch(ch, data) ==
    LET c1 == GuildChannelPatch(ch, data)
        c2 == ForumPatchTags(c1, data)
        c3 == CopyOrDefault(c2, "defaultThreadRateLimitPerUser", data,
                            "default_thread_rate_limit_per_user", Null)
        c4 == CopyOrDefault(c3, "rateLimitPerUser", data, "rate_limit_per_user", Null)
        c5 == CopyOrDefault(c4, "defaultAutoArchiveDuration", data,
                            "default_auto_archive_duration", Null)
        c6 == CopyOrDefault(c5, "nsfw", data, "nsfw", False)
    IN Copy(c6, "topic", data, "topic")

\* new ForumChannel(guild, data, client)
ForumChannelNew(data, guild) == ForumChannelPatch(GuildChannelInit(data, guild), data)

\* new CategoryChannel(guild, data, client): GuildChannel's constructor with
\* immediatePatch left true
CategoryChannelNew(data, guild) == GuildChannelPatch(GuildChannelInit(data, guild), data)

(***************************************************************************)
(* VoiceState                                                              *)
(***************************************************************************)
\* Date.parse / new Date(s).getTime() for the timestamps the model sends
DateParse(s) ==
    CASE s = "2022-01-09T00:00:00Z" -> "1641686400000"
      [] s = "2022-02-01T00:00:00Z" -> "1643673600000"

\* data[k] ?? v
OrElse(data, k, v) == IF Has(data, k) /\ data[k] # Null THEN data[k] ELSE v

\* A variant that reads self_stream whenever it is sent and clears streaming otherwise.
VoiceStatePatchStreamingCleared(vs, data) ==
    Put(vs, "streaming", OrElse(data, "self_stream", False))

\* if ('self_video' in data) this.streaming = data.self_stream ?? false;
\* else this.streaming ??= null
VoiceStatePatchStreaming(vs, data) ==
    IF Has(data, "self_video") THEN Put(vs, "streaming", OrElse(data, "self_stream", False))
    ELSE Default(vs, "streaming", Null)

\* VoiceState._patch
VoiceStatePatch(vs, data) ==
    LET v1 == CopyOrDefault(vs, "serverDeaf", data, "deaf", Null)
        v2 == CopyOrDefault(v1, "serverMute", data, "mute", Null)
        v3 == CopyOrDefault(v2, "selfDeaf", data, "self_deaf", Null)
        v4 == CopyOrDefault(v3, "selfMute", data, "self_mute", Null)
        v5 == CopyOrDefault(v4, "selfVideo", data, "self_video", Null)
        v6 == CopyOrDefault(v5, "sessionId", data, "session_id", Null)
        v7 == VoiceStatePatchStreaming(v6, data)
        v8 == CopyOrDefault(v7, "channelId", data, "channel_id", Null)
        v9 == Copy(v8, "suppress", data, "suppress")
    IN PutOrDefault(Has(data, "request_to_speak_timestamp"), v9, "requestToSpeakTimestamp",
                    IF data.request_to_speak_timestamp = Null THEN Null
                    ELSE DateParse(data.request_to_speak_timestamp),
                    Null)

\* new VoiceState(guild, data)
VoiceStateNew(data, guild) ==
    VoiceStatePatch([guild |-> guild, id |-> data.user_id], data)

(***************************************************************************)
(* ThreadChannel                                                           *)
(***************************************************************************)
\* SnowflakeUtil.timestampFrom(id), kept symbolic
TimestampFrom(id) == "created:" \o id

\* the thread_metadata branch of ThreadChannel._patch
ThreadPatchMetadata(th, data) ==
    IF Has(data, "thread_metadata")
    THEN LET m == data.thread_metadata
             t1 == Put(th, "locked", OrElse(m, "locked", False))
             t2 == Put(t1, "invitable",
                       IF th.type = "GUILD_PRIVATE_THREAD" THEN OrElse(m, "invitable", False)
                       ELSE Null)
             t3 == Put(t2, "archived", m.archived)
             t4 == Put(t3, "autoArchiveDuration", m.auto_archive_duration)
             t5 == Put(t4, "archiveTimestamp", DateParse(m.archive_timestamp))
         IN PutIf(Has(m, "create_timestamp"), t5, "_createdTimestamp",
                  DateParse(m.create_timestamp))
    ELSE Default(Default(Default(Default(Default(th,
             "locked", Null), "archived", Null), "autoArchiveDuration", Null),
             "archiveTimestamp", Null), "invitable", Null)

\* this._createdTimestamp ??= this.type === 'GUILD_PRIVATE_THREAD' ? ... : null
ThreadPatchCreated(th) ==
    Default(th, "_createdTimestamp",
            IF th.type = "GUILD_PRIVATE_THREAD" THEN TimestampFrom(th.id) ELSE Null)

\* if ('applied_tags' in data) this.appliedTags = data.applied_tags;
\* else this.appliedTags ??= []
ThreadPatchAppliedTags(th, data) ==
    IF Has(data, "applied_tags") THEN Put(th, "appliedTags", data.applied_tags)
    ELSE IF Has(th, "appliedTags") THEN th ELSE Put(th, "appliedTags", <<>>)

\* ThreadChannel._patch(data, partial)
ThreadChannelPatch(th, data, partial) ==
    LET t1 == ChannelPatch(th, data)
        t2 == Copy(t1, "name", data, "name")
        t3 == Copy(t2, "guildId", data, "guild_id")
        t4 == CopyOrDefault(t3, "parentId", data, "parent_id", Null)
        t5 == ThreadPatchMetadata(t4, data)
        t6 == ThreadPatchCreated(t5)
        t7 == CopyOrDefault(t6, "ownerId", data, "owner_id", Null)
        t8 == PutOrDefault(Has(data, "rate_limit_per_user") \/ ~partial, t7,
                           "rateLimitPerUser", OrElse(data, "rate_limit_per_user", "0"), Null)
        t9 == CopyOrDefault(t8, "memberCount", data, "member_count", Null)
    IN ThreadPatchAppliedTags(t9, data)

\* new ThreadChannel(guild, data, client): guild is the guild object handed in and
\* guildId its id, or Null when there is none
ThreadChannelNew(data, guild, guildId) ==
    ThreadChannelPatch(With(Put(ChannelInit(data), "guild", guild), LAMBDA t :
                                IF guildId # Null THEN Put(t, "guildId", guildId)
                                ELSE Copy(t, "guildId", data, "guild_id")),
                       data, FALSE)

(***************************************************************************)
(* Guild: the fields                                                       *)
(***************************************************************************)
\* PremiumTiers[data.premium_tier]
PremiumTierOf(n) ==
    CASE n = "0" -> "NONE"
      [] n = "1" -> "TIER_1"
      [] n = "2" -> "TIER_2"
      [] n = "3" -> "TIER_3"

\* a truthy data[k], for the keys that carry a boolean
Truthy(data, k) == Has(data, k) /\ data[k] = True

\* the part of Guild._patch that assigns the guild's own fields
GuildPatchFields(g, data) ==
    LET g1 == Put(g, "id", data.id)
        g2 == Copy(g1, "name", data, "name")
        g3 == Copy(g2, "icon", data, "icon")
        g4 == PutOrDefault(Has(data, "unavailable"), g3, "available",
                           IF Truthy(data, "unavailable") THEN False ELSE True, True)
        g5 == Copy(g4, "memberCount", data, "member_count")
        g6 == PutIf(Has(data, "large"), g5, "large", ToBoolean(data, "large"))
        g7 == PutIf(Has(data, "premium_tier"), g6, "premiumTier",
                    PremiumTierOf(data.premium_tier))
        g8 == PutIf(Has(data, "joined_at"), g7, "joinedTimestamp", DateParse(data.joined_at))
        g9 == CopyOrDefault(g8, "maximumMembers", data, "max_members", Null)
        g10 == PutOrDefault(Has(data, "max_presences"), g9, "maximumPresences",
                            OrElse(data, "max_presences", "25000"), Null)
        g11 == Default(g10, "vanityURLUses", Null)
    IN Copy(g11, "ownerId", data, "owner_id")

\* new Guild(client, data), up to the test of data.unavailable: the id kept by the
\* base class, the flag and the empty manager caches
GuildInit(data) ==
    [class |-> "Guild", id |-> data.id, deleted |-> False, roles |-> EmptyRec,
     channels |-> EmptyRec, voiceStates |-> EmptyRec, invites |-> EmptyRec]

\* if (!data.channels) this.available = false; this.shardId = data.shardId
GuildConstructed(g, data) ==
    Copy(IF Has(data, "channels") THEN g ELSE Put(g, "available", False),
         "shardId", data, "shardId")

(***************************************************************************)
(* Payloads                                                                *)
(***************************************************************************)
ChannelKinds == {"TextChannel", "VoiceChannel", "StageChannel", "ForumChannel"}
Kinds == {"Role", "VoiceState", "ThreadChannel", "Guild"} \cup ChannelKinds

\* the keys of a guild channel payload that every GuildChannel class reads, and topic and nsfw
CoreChannelKeys == {"name", "position", "parent_id", "topic", "nsfw", "flags",
                    "permission_overwrites"}

KeysOf(k) ==
    CASE k = "Role" -> RoleKeys
      [] k = "TextChannel" ->
            CoreChannelKeys \cup {"guild_id", "default_auto_archive_duration",
                                  "default_thread_rate_limit_per_user"}
      [] k = "VoiceChannel" ->
            CoreChannelKeys \cup {"guild_id", "bitrate", "rtc_region", "user_limit",
                                  "rate_limit_per_user", "status"}
      [] k = "StageChannel" ->
            CoreChannelKeys \cup {"guild_id", "bitrate", "rtc_region", "user_limit",
                                  "rate_limit_per_user", "status"}
      [] k = "ForumChannel" ->
            CoreChannelKeys \cup {"guild_id", "available_tags", "rate_limit_per_user",
                                  "default_auto_archive_duration",
                                  "default_thread_rate_limit_per_user"}
      [] k = "VoiceState" ->
            {"deaf", "mute", "self_deaf", "self_mute", "self_video", "session_id",
             "self_stream", "channel_id", "suppress", "request_to_speak_timestamp"}
      [] k = "ThreadChannel" ->
            {"name", "guild_id", "parent_id", "thread_metadata", "owner_id",
             "rate_limit_per_user", "member_count", "applied_tags", "flags"}
      [] k = "Guild" ->
            {"name", "icon", "unavailable", "member_count", "large", "premium_tier",
             "joined_at", "max_members", "max_presences", "owner_id"}

\* the keys of which every subset is sent
CoreKeysOf(k) ==
    CASE k = "Role" -> RoleKeys
      [] k \in ChannelKinds -> CoreChannelKeys
      [] k = "VoiceState" -> {"self_video", "self_stream", "deaf"}
      [] k = "ThreadChannel" -> {"thread_metadata", "rate_limit_per_user", "parent_id"}
      [] k = "Guild" -> {"name", "unavailable", "max_presences", "member_count"}

\* the values the model sends under each key
ValsOf(k, key) ==
    IF k = "Role" THEN RoleVals(key)
    ELSE IF k = "VoiceState" THEN
        CASE key = "session_id" -> {"s1"}
          [] key = "channel_id" -> {"2", Null}
          [] key = "request_to_speak_timestamp" -> {"2022-01-09T00:00:00Z", Null}
          [] key = "suppress" -> {True}
          [] key = "self_stream" -> {True}
          [] OTHER -> {True, False}
    ELSE IF k = "ThreadChannel" THEN
        CASE key = "name" -> {"a"}
          [] key = "guild_id" -> {"1"}
          [] key = "parent_id" -> {"2"}
          [] key = "thread_metadata" ->
                {[archived |-> False, auto_archive_duration |-> "60",
                  archive_timestamp |-> "2022-01-09T00:00:00Z"],
                 [archived |-> True, auto_archive_duration |-> "60",
                  archive_timestamp |-> "2022-02-01T00:00:00Z", locked |-> True,
                  invitable |-> True, create_timestamp |-> "2022-01-09T00:00:00Z"]}
          [] key = "owner_id" -> {"9"}
          [] key = "rate_limit_per_user" -> {"5"}
          [] key = "member_count" -> {"3"}
          [] key = "applied_tags" -> {<<"8">>}
          [] key = "flags" -> {2}
    ELSE IF k = "Guild" THEN
        CASE key = "name" -> {"g", "h"}
          [] key = "icon" -> {"hash", Null}
          [] key = "unavailable" -> {True, False}
          [] key = "member_count" -> {"3"}
          [] key = "large" -> {True}
          [] key = "premium_tier" -> {"1"}
          [] key = "joined_at" -> {"2022-01-09T00:00:00Z"}
          [] key = "max_members" -> {"500"}
          [] key = "max_presences" -> {"100", Null}
          [] key = "owner_id" -> {"9"}
    ELSE
        CASE key = "name" -> {"general", "random"}
          [] key = "position" -> {0, 1}
          [] key = "parent_id" -> {"3", Null}
          [] key = "topic" -> {"hi", Null}
          [] key = "nsfw" -> {True, False}
          [] key = "flags" -> {2}
          [] key = "permission_overwrites" ->
                {<<>>, <<[id |-> "9", allow |-> "0", deny |-> "1024"]>>}
          [] key = "guild_id" -> {"1"}
          [] key = "available_tags" -> {<<[id |-> "8", name |-> "t", moderated |-> False]>>}
          [] key = "rtc_region" -> {"eu"}
          [] key = "status" -> {"live", Null}
          [] key = "bitrate" -> {"64000"}
          [] key = "user_limit" -> {"5"}
          [] OTHER -> {"60"}

\* every record over at most n of the keys K
RECURSIVE Partial(_, _, _)
Partial(k, K, n) ==
    IF K = {} \/ n = 0 THEN {EmptyRec}
    ELSE LET key == CHOOSE x \in K : TRUE
         IN Partial(k, K \ {key}, n)
            \cup {(key :> v) @@ r : v \in ValsOf(k, key), r \in Partial(k, K \ {key}, n - 1)}

\* the keys every payload of the kind carries
IdRec(k) ==
    IF k = "VoiceState" THEN [user_id |-> "1"] ELSE [id |-> "1"]

\* sparse payloads: at most MaxKeys keys besides the id
SparsePayloads(k) == {r @@ IdRec(k) : r \in Partial(k, KeysOf(k), MaxKeys)}

\* sparse payloads and every combination of the core keys
AllPayloads(k) ==
    SparsePayloads(k)
    \cup {r @@ IdRec(k) : r \in Partial(k, CoreKeysOf(k), Cardinality(CoreKeysOf(k)))}

Sparse == [k \in Kinds |-> SparsePayloads(k)]
Payloads == [k \in Kinds |-> AllPayloads(k)]

\* a payload with every key of the kind
FullPayload(k) ==
    [key \in KeysOf(k) |->
        CASE key = "permission_overwrites" -> <<[id |-> "9", allow |-> "0", deny |-> "1024"]>>
          [] key = "parent_id" /\ k # "ThreadChannel" -> "3"
          [] key = "topic" -> "hi"
          [] key = "status" -> "live"
          [] key = "channel_id" -> "2"
          [] key = "icon" -> "hash"
          [] key = "tags" -> [bot_id |-> "9"]
          [] key = "request_to_speak_timestamp" -> "2022-01-09T00:00:00Z"
          [] key = "unavailable" -> False
          [] key = "max_presences" -> "100"
          [] OTHER -> CHOOSE v \in ValsOf(k, key) : TRUE] @@ IdRec(k)

\* the payloads entities are constructed from
InitPayloads(k) ==
    IF k = "Role"
    THEN {[id |-> "1"], FullPayload(k),
          [id |-> "1", name |-> "@everyone", position |-> 0, permissions |-> "104324673"]}
    ELSE IF k = "VoiceState" THEN {[user_id |-> "1"], FullPayload(k)}
    ELSE IF k = "Guild"
    THEN {[id |-> "1"], FullPayload(k), [id |-> "1", unavailable |-> True]}
    ELSE IF k = "ThreadChannel"
    THEN {[type |-> t] @@ d : t \in {"GUILD_PUBLIC_THREAD", "GUILD_PRIVATE_THREAD"},
                             d \in {[id |-> "1"], FullPayload(k)}}
    ELSE LET t == CASE k = "TextChannel" -> "GUILD_TEXT"
                    [] k = "VoiceChannel" -> "GUILD_VOICE"
                    [] k = "StageChannel" -> "GUILD_STAGE_VOICE"
                    [] k = "ForumChannel" -> "GUILD_FORUM"
         IN {[type |-> t] @@ d :
                d \in {[id |-> "1"], FullPayload(k),
                       [id |-> "1", name |-> "general", nsfw |-> False]}}

\* new <kind>(..., data, ...)
New(k, data) ==
    CASE k = "Role" -> RoleNew(data, "1")
      [] k = "TextChannel" -> TextChannelNew(data, "1")
      [] k = "VoiceChannel" -> VoiceChannelNew(data, "1")
      [] k = "StageChannel" -> StageChannelNew(data, "1")
      [] k = "ForumChannel" -> ForumChannelNew(data, "1")
      [] k = "VoiceState" -> VoiceStateNew(data, "1")
      [] k = "ThreadChannel" -> ThreadChannelNew(data, "1", "1")
      [] k = "Guild" ->
            IF Truthy(data, "unavailable") THEN Put(GuildInit(data), "available", False)
            ELSE GuildConstructed(GuildPatchFields(GuildInit(data), data), data)

\* entity._patch(data, partial), by the entity's class; for a guild, the part that
\* assigns its own fields
PatchOf(k, e, data, partial) ==
    CASE k = "Role" -> RolePatch(e, data)
      [] k = "TextChannel" -> TextChannelPatch(e, data)
      [] k = "VoiceChannel" -> VoiceChannelPatch(e, data)
      [] k = "StageChannel" -> StageChannelPatch(e, data)
      [] k = "ForumChannel" -> ForumChannelPatch(e, data)
      [] k = "VoiceState" -> VoiceStatePatch(e, data)
      [] k = "ThreadChannel" -> ThreadChannelPatch(e, data, partial)
      [] k = "NewsChannel" -> TextChannelPatch(e, data)
      [] k = "CategoryChannel" -> GuildChannelPatch(e, data)
      [] k = "DMChannel" -> ChannelPatch(e, data)
      [] k = "Guild" -> GuildPatchFields(e, data)

(***************************************************************************)
(* The entity store: client.guilds.cache, client.channels.cache and the    *)
(* instances they lead to.  A store is [guilds, channels, heap]; an        *)
(* operation yields [st |-> the store after it, ret |-> what it returns].  *)
(* A guild instance carries its managers' caches (roles, channels,         *)
(* voiceStates), a text or forum channel its thread cache (threads).       *)
(***************************************************************************)
\* null or undefined where an instance is expected
NoRef == 0

\* cache.get(id) ?? null
Get(cache, id) == IF id \in DOMAIN cache THEN cache[id] ELSE NoRef

\* cache.delete(id)
Without(cache, id) == [k \in DOMAIN cache \ {id} |-> cache[k]]

\* the reference a new instance gets: the lowest one not in use
Alloc(h) ==
    LET free == (1..(Cardinality(DOMAIN h) + 1)) \ DOMAIN h
    IN CHOOSE r \in free : \A q \in free : r <= q

\* RoleManager._add(data, cache): the manager's add with the guild as constructor extra
RolesAdd(store, g, data, cache) ==
    With(store, LAMBDA st :
        LET c == st.heap[g].roles
        IN IF data.id \in DOMAIN c
           THEN [st |-> [st EXCEPT !.heap[c[data.id]] = RolePatch(@, data)],
                 ret |-> c[data.id]]
           ELSE With(Alloc(st.heap), LAMBDA r :
                    [st |-> [st EXCEPT
                                !.heap = Put(@, r, Put(RoleNew(data, g), "class", "Role")),
                                !.heap[g].roles = IF cache THEN Put(@, data.id, r) ELSE @],
                     ret |-> r]))

\* VoiceStateManager._add(data, cache): the manager's add keyed by data.user_id
VoiceStatesAdd(store, g, data, cache) ==
    With(store, LAMBDA st :
        LET c == st.heap[g].voiceStates
        IN IF data.user_id \in DOMAIN c
           THEN [st |-> [st EXCEPT !.heap[c[data.user_id]] = VoiceStatePatch(@, data)],
                 ret |-> c[data.user_id]]
           ELSE With(Alloc(st.heap), LAMBDA r :
                    [st |-> [st EXCEPT
                                !.heap = Put(@, r, Put(VoiceStateNew(data, g),
                                                       "class", "VoiceState")),
                                !.heap[g].voiceStates =
                                    IF cache THEN Put(@, data.user_id, r) ELSE @],
                     ret |-> r]))

\* GuildChannelManager._add(channel): an id already in the guild's cache keeps its entry
GuildChannelsAdd(store, g, r) ==
    With(store, LAMBDA st :
        LET id == st.heap[r].id
        IN IF id \in DOMAIN st.heap[g].channels THEN st
           ELSE [st EXCEPT !.heap[g].channels = Put(@, id, r)])

\* the class Channel.create builds for a guild, by data.type
ChannelClassOf(data) ==
    LET t == ChannelTypeOf(data)
    IN CASE t = "GUILD_TEXT" -> "TextChannel"
         [] t = "GUILD_VOICE" -> "VoiceChannel"
         [] t = "GUILD_CATEGORY" -> "CategoryChannel"
         [] t = "GUILD_NEWS" -> "NewsChannel"
         [] t = "GUILD_STAGE_VOICE" -> "StageChannel"
         [] t = "GUILD_FORUM" -> "ForumChannel"
         [] t \in ThreadChannelTypes -> "ThreadChannel"
         [] OTHER -> "none"

\* new <class>(guild, data, client) in the switch of Channel.create
ChannelNew(class, data, g, guildId) ==
    Put(CASE class = "TextChannel" -> Put(TextChannelNew(data, guildId), "threads", EmptyRec)
          [] class = "NewsChannel" -> Put(TextChannelNew(data, guildId), "threads", EmptyRec)
          [] class = "VoiceChannel" -> VoiceChannelNew(data, guildId)
          [] class = "CategoryChannel" -> CategoryChannelNew(data, guildId)
          [] class = "StageChannel" -> StageChannelNew(data, guildId)
          [] class = "ForumChannel" -> Put(ForumChannelNew(data, guildId), "threads", EmptyRec)
          [] class = "ThreadChannel" -> ThreadChannelNew(data, g, guildId),
        "class", class)

\* Channel.create(client, data, guild, {allowUnknownGuild})
ChannelCreate(store, data, guild, allowUnknownGuild) ==
    With(store, LAMBDA st :
        IF ~Has(data, "guild_id") /\ guild = NoRef
        THEN IF ChannelTypeOf(data) = "DM"
             THEN With(Alloc(st.heap), LAMBDA r :
                      [st |-> [st EXCEPT !.heap =
                                  Put(@, r, Put(ChannelPatch(ChannelInit(data), data),
                                                "class", "DMChannel"))],
                       ret |-> r])
             ELSE [st |-> st, ret |-> NoRef]
        ELSE LET g == IF guild # NoRef THEN guild ELSE Get(st.guilds, data.guild_id)
                 class == ChannelClassOf(data)
             IN IF (g = NoRef /\ ~allowUnknownGuild) \/ class = "none"
                THEN [st |-> st, ret |-> NoRef]
                ELSE With(<<Alloc(st.heap),
                            ChannelNew(class, data, g,
                                       IF g # NoRef THEN st.heap[g].id ELSE Null)>>,
                          LAMBDA new :
                     LET r == new[1]
                         obj == new[2]
                         \* channel.parent?.threads.cache.set(channel.id, channel)
                         parent == IF g # NoRef /\ class = "ThreadChannel"
                                   THEN Get(st.heap[g].channels, obj.parentId) ELSE NoRef
                         threads == ~allowUnknownGuild /\ parent # NoRef
                                       /\ Has(st.heap[parent], "threads")
                     IN [st |-> [st EXCEPT
                                    !.heap = Put(@, r, obj),
                                    !.heap = IF threads
                                             THEN [@ EXCEPT ![parent].threads =
                                                                Put(@, obj.id, r)]
                                             ELSE @,
                                    \* guild.channels?.cache.set(channel.id, channel)
                                    !.heap = IF ~allowUnknownGuild
                                             THEN [@ EXCEPT ![g].channels = Put(@, obj.id, r)]
                                             ELSE @],
                         ret |-> r]))

\* client.channels._add(data, guild, {cache}): the channel manager's add, which
\* patches a cached channel and hands it to its guild's manager, and otherwise
\* builds the channel with Channel.create
ChannelsAdd(store, data, guild, cache) ==
    With(store, LAMBDA st :
        IF data.id \in DOMAIN st.channels
        THEN With([st EXCEPT !.heap[st.channels[data.id]] =
                                 PatchOf(@.class, @, data, FALSE)],
                  LAMBDA st1 :
                      [st |-> IF guild # NoRef
                              THEN GuildChannelsAdd(st1, guild, st.channels[data.id])
                              ELSE st1,
                       ret |-> st.channels[data.id]])
        ELSE With(ChannelCreate(st, data, guild, FALSE), LAMBDA res :
                 IF res.ret = NoRef \/ ~cache THEN res
                 ELSE [st |-> [res.st EXCEPT !.channels = Put(@, data.id, res.ret)],
                       ret |-> res.ret]))

\* for (const raw of list) this.client.channels._add(raw, this)
RECURSIVE AddChannels(_, _, _)
AddChannels(st, list, g) ==
    IF list = <<>> THEN st
    ELSE AddChannels(ChannelsAdd(st, Head(list), g, TRUE).st, Tail(list), g)

\* for (const role of list) this.roles._add(role)
RECURSIVE AddRoles(_, _, _)
AddRoles(st, list, g) ==
    IF list = <<>> THEN st
    ELSE AddRoles(RolesAdd(st, g, Head(list), TRUE).st, Tail(list), g)

\* for (const voiceState of list) this.voiceStates._add(voiceState)
RECURSIVE AddVoiceStates(_, _, _)
AddVoiceStates(st, list, g) ==
    IF list = <<>> THEN st
    ELSE AddVoiceStates(VoiceStatesAdd(st, g, Head(list), TRUE).st, Tail(list), g)

\* if ('channels' in data) { this.channels.cache.clear(); for ... _add(rawChannel, this) }
GuildPatchChannels(st, g, data) ==
    IF Has(data, "channels")
    THEN AddChannels([st EXCEPT !.heap[g].channels = EmptyRec], data.channels, g)
    ELSE st

\* if ('threads' in data) { for ... this.client.channels._add(rawThread, this) }
GuildPatchThreads(st, g, data) ==
    IF Has(data, "threads") THEN AddChannels(st, data.threads, g) ELSE st

\* A variant that adds the roles of the array to the cache as it is.
GuildPatchRolesKept(st, g, data) ==
    IF Has(data, "roles") THEN AddRoles(st, data.roles, g) ELSE st

\* if ('roles' in data) { this.roles.cache.clear(); for ... this.roles._add(role) }
GuildPatchRoles(st, g, data) ==
    IF Has(data, "roles")
    THEN AddRoles([st EXCEPT !.heap[g].roles = EmptyRec], data.roles, g)
    ELSE st

\* if ('voice_states' in data) { this.voiceStates.cache.clear(); for ... _add(voiceState) }
GuildPatchVoiceStates(st, g, data) ==
    IF Has(data, "voice_states")
    THEN AddVoiceStates([st EXCEPT !.heap[g].voiceStates = EmptyRec], data.voice_states, g)
    ELSE st

\* Guild._patch(data) on the guild instance g
GuildPatch(store, g, data) ==
    GuildPatchVoiceStates(
        GuildPatchRoles(
            GuildPatchThreads(
                GuildPatchChannels([store EXCEPT !.heap[g] = GuildPatchFields(@, data)],
                                   g, data),
                g, data),
            g, data),
        g, data)

\* new Guild(client, data)
GuildNew(store, data) ==
    With(store, LAMBDA st :
        With(Alloc(st.heap), LAMBDA g :
            LET s0 == [st EXCEPT !.heap = Put(@, g, GuildInit(data))]
                s1 == IF Truthy(data, "unavailable")
                      THEN [s0 EXCEPT !.heap[g] = Put(@, "available", False)]
                      ELSE [GuildPatch(s0, g, data) EXCEPT
                               !.heap[g] = GuildConstructed(@, data)]
            IN [st |-> s1, ret |-> g]))

\* client.guilds._add(data, cache): the manager's add
GuildsAdd(store, data, cache) ==
    With(store, LAMBDA st :
        IF data.id \in DOMAIN st.guilds
        THEN [st |-> GuildPatch(st, st.guilds[data.id], data), ret |-> st.guilds[data.id]]
        ELSE With(GuildNew(st, data), LAMBDA res :
                 IF cache THEN [st |-> [res.st EXCEPT !.guilds = Put(@, data.id, res.ret)],
                                ret |-> res.ret]
                 ELSE res))

\* the instances an instance refers to
RefsOf(o) ==
    UNION {IF Has(o, f) THEN {o[f][k] : k \in DOMAIN o[f]} ELSE {} :
              f \in {"roles", "channels", "voiceStates", "invites", "threads"}}
    \cup (IF o.class \in {"Role", "VoiceState", "ThreadChannel", "Invite"} /\ o.guild # NoRef
          THEN {o.guild} ELSE {})

\* the instances reachable from the set S
RECURSIVE Reach(_, _)
Reach(S, h) ==
    With(S \cup UNION {RefsOf(h[r]) : r \in S}, LAMBDA T :
        IF T = S THEN S ELSE Reach(T, h))

\* the store without the instances nothing refers to any more
Collect(store, roots) ==
    With(store, LAMBDA st :
        With(Reach((roots \cup {st.guilds[k] : k \in DOMAIN st.guilds}
                          \cup {st.channels[k] : k \in DOMAIN st.channels})
                   \ {NoRef}, st.heap),
             LAMBDA live : [st EXCEPT !.heap = [r \in live |-> st.heap[r]]]))

\* client.channels._remove(id): the channel manager's remove, which also drops the
\* channel from its guild's cache and from its parent's thread cache
ChannelsRemove(store, id) ==
    With(store, LAMBDA st :
        LET r == Get(st.channels, id)
        IN IF r = NoRef THEN st
           ELSE LET o == st.heap[r]
                    g == IF o.class = "ThreadChannel" THEN o.guild
                         ELSE IF Has(o, "guildId") THEN Get(st.guilds, o.guildId) ELSE NoRef
                    parent == IF g # NoRef /\ Has(o, "parentId")
                              THEN Get(st.heap[g].channels, o.parentId) ELSE NoRef
                    threads == parent # NoRef /\ Has(st.heap[parent], "threads")
                IN [st EXCEPT
                       !.heap = IF g # NoRef THEN [@ EXCEPT ![g].channels = Without(@, id)]
                                ELSE @,
                       !.heap = IF threads THEN [@ EXCEPT ![parent].threads = Without(@, id)]
                                ELSE @,
                       !.heap[r] = Put(@, "deleted", True),
                       !.channels = Without(@, id)])

(***************************************************************************)
(* Payloads of the cache machine                                           *)
(***************************************************************************)
\* most handlers and continuations that run in one behaviour
MaxSteps == 4
\* most REST requests in flight at one time
MaxPending == 1

GuildIds == {"1"}
ChannelIds == {"1", "2", "3", "5", "8"}
RoleIds == {"10", "11"}

\* entries of a snapshot's channels array: the spec's text channel, and a channel of
\* a type the library has no class for
SnapText == [id |-> "1", type |-> "GUILD_TEXT", name |-> "general"]
SnapUnknown == [id |-> "3", type |-> "GUILD_DIRECTORY", name |-> "hub"]
SnapThread == [id |-> "5", type |-> "GUILD_PUBLIC_THREAD", parent_id |-> "1", name |-> "t"]
SnapEveryone == [id |-> "10", name |-> "@everyone", position |-> 0,
                 permissions |-> "104324673"]
SnapRole == [id |-> "11", name |-> "a", position |-> 0]
SnapVoiceState == [user_id |-> "7", channel_id |-> "2"]

\* the guild payloads of the gateway and of REST: bare, unavailable, the spec's
\* snapshot, and snapshots that carry some of the arrays
GuildPayloads ==
    {r @@ [id |-> id] :
        r \in {EmptyRec,
               [name |-> "g"],
               [unavailable |-> True],
               [name |-> "g", channels |-> <<SnapText>>, roles |-> <<SnapEveryone>>],
               [channels |-> <<SnapText, SnapUnknown>>, voice_states |-> <<SnapVoiceState>>],
               [channels |-> <<>>, roles |-> <<>>, voice_states |-> <<>>],
               [threads |-> <<SnapThread>>],
               [roles |-> <<SnapEveryone, SnapRole>>]},
        id \in GuildIds}

\* payloads of the events and REST responses that carry one channel
ChannelPayloads ==
    {[id |-> "1", type |-> "GUILD_TEXT", name |-> "random", guild_id |-> "1", position |-> 0],
     [id |-> "2", type |-> "GUILD_VOICE", name |-> "v", guild_id |-> "1"],
     [id |-> "3", type |-> "GUILD_DIRECTORY", name |-> "hub", guild_id |-> "1"],
     [id |-> "8", type |-> "GUILD_NEWS", name |-> "news", guild_id |-> "1", position |-> 0],
     [id |-> "8", type |-> "GUILD_NEWS", name |-> "news", guild_id |-> "1",
      parent_id |-> "2"]}

\* payloads of the events and REST responses that carry one role
RolePayloads == {[id |-> "10", name |-> "b"], SnapRole}

(***************************************************************************)
(* The cache machine: gateway events                                       *)
(***************************************************************************)
Cur == [guilds |-> guilds, channels |-> channels, heap |-> heap]

\* the instances a record of last or of pending refers to
HeldBy(l) == {l[f] : f \in DOMAIN l \cap {"ret", "was", "guild", "inst", "old"}}

\* the step ends in store st with outcome l, requests p and timers t
Commit(st, l, p, t) ==
    \E c \in {Collect(st, HeldBy(l) \cup UNION {HeldBy(q) : q \in p} \cup t)} :
       /\ guilds' = c.guilds
       /\ channels' = c.channels
       /\ heap' = c.heap
       /\ last' = l
       /\ pending' = p
       /\ timers' = t
       /\ steps' = steps + 1
       /\ UNCHANGED patchVars

Init ==
    /\ kind = "none"
    /\ ent = EmptyRec
    /\ prev = EmptyRec
    /\ base = EmptyRec
    /\ hist = <<>>
    /\ CacheIdle

\* a guild payload from the gateway (GUILD_CREATE, GUILD_UPDATE): client.guilds._add(data)
GuildCreate ==
    /\ kind = "none"
    /\ steps < MaxSteps
    /\ \E data \in GuildPayloads :
          \E res \in {GuildsAdd(Cur, data, TRUE)} :
             Commit(res.st,
                    [op |-> "guilds._add", data |-> data, was |-> Get(guilds, data.id),
                     ret |-> res.ret, events |-> <<>>],
                    pending, timers)

\* the guild payload that has just patched a cached guild is delivered a second
\* time: guild._patch(data)
GuildRepeat ==
    /\ kind = "none"
    /\ steps < MaxSteps
    /\ last.op = "guilds._add"
    /\ last.was # NoRef
    /\ Commit(GuildPatch(Cur, last.ret, last.data),
              [op |-> "Guild._patch", data |-> last.data, was |-> last.ret,
               ret |-> last.ret, events |-> <<>>],
              pending, timers)

\* a role payload from the gateway (GUILD_ROLE_CREATE, GUILD_ROLE_UPDATE):
\* guild.roles._add(data.role)
RoleUpsert ==
    /\ kind = "none"
    /\ steps < MaxSteps
    /\ \E gid \in DOMAIN guilds, data \in RolePayloads :
          \E g \in {guilds[gid]} : \E res \in {RolesAdd(Cur, g, data, TRUE)} :
             Commit(res.st,
                    [op |-> "roles._add", guild |-> g, data |-> data,
                     was |-> Get(heap[g].roles, data.id), ret |-> res.ret, events |-> <<>>],
                    pending, timers)

\* the instance that the step before removed from client.channels under this id
Removed(id) == IF last.op = "ChannelDelete" /\ last.id = id THEN last.ret ELSE NoRef

\* a channel payload from the gateway (CHANNEL_CREATE, CHANNEL_UPDATE):
\* client.channels._add(data)
ChannelUpsert ==
    /\ kind = "none"
    /\ steps < MaxSteps
    /\ \E data \in ChannelPayloads :
          \E res \in {ChannelsAdd(Cur, data, NoRef, TRUE)} :
             Commit(res.st,
                    [op |-> "channels._add", data |-> data,
                     was |-> Get(channels, data.id), removed |-> Removed(data.id),
                     ret |-> res.ret, events |-> <<>>],
                    pending, timers)

\* A variant that emits channelDelete and leaves the channel in its caches.
ChannelDeleteKeeping ==
    /\ kind = "none"
    /\ steps < MaxSteps
    /\ \E id \in ChannelIds :
          Commit(Cur, [op |-> "ChannelDelete", id |-> id, ret |-> Get(channels, id),
                       events |-> IF Get(channels, id) # NoRef THEN <<"channelDelete">>
                                  ELSE <<>>,
                       seen |-> Get(channels, id)],
                 pending, timers)

\* A variant that removes the channel before it emits channelDelete.
ChannelDeleteRemovingFirst ==
    /\ kind = "none"
    /\ steps < MaxSteps
    /\ \E id \in ChannelIds :
          \E st \in {ChannelsRemove(Cur, id)} :
             Commit(st, [op |-> "ChannelDelete", id |-> id, ret |-> Get(channels, id),
                         events |-> IF Get(channels, id) # NoRef THEN <<"channelDelete">>
                                    ELSE <<>>,
                         seen |-> Get(st.channels, id)],
                    pending, timers)

\* ChannelDeleteAction.handle(data); seen is what client.channels.resolve(id) yields
\* while the listeners of channelDelete run
ChannelDelete ==
    /\ kind = "none"
    /\ steps < MaxSteps
    /\ \E id \in ChannelIds :
          LET channel == Get(channels, id)
          IN IF channel # NoRef
             THEN Commit(ChannelsRemove(Cur, id),
                         [op |-> "ChannelDelete", id |-> id, ret |-> channel,
                          events |-> <<"channelDelete">>,
                          seen |-> Get(Cur.channels, id)],
                         pending, timers)
             ELSE Commit(Cur, [op |-> "ChannelDelete", id |-> id, ret |-> NoRef,
                               events |-> <<>>, seen |-> NoRef],
                         pending, timers)

\* A variant that emits guildDelete whether or not the guild is cached.
GuildDeleteHandleEmitting(st, id, unavailable) ==
    LET guild == Get(st.guilds, id)
    IN IF guild # NoRef /\ unavailable
       THEN [st |-> [st EXCEPT !.heap[guild] = Put(@, "available", False)],
             ret |-> NoRef, events |-> <<"guildUnavailable">>, timer |-> {}]
       ELSE [st |-> [st EXCEPT !.guilds = Without(@, id)],
             ret |-> guild, events |-> <<"guildDelete">>,
             timer |-> IF guild # NoRef THEN {guild} ELSE {}]


\* A variant that takes every GUILD_DELETE as a removal.
GuildDeleteHandleRemoving(st, id, unavailable) ==
    LET guild == Get(st.guilds, id)
    IN IF guild = NoRef
       THEN [st |-> st, ret |-> NoRef, events |-> <<>>, timer |-> {}]
       ELSE [st |-> [st EXCEPT !.guilds = Without(@, id)],
             ret |-> guild, events |-> <<"guildDelete">>, timer |-> {guild}]

\* GuildDeleteAction.handle(data): the store, the result's guild, the events emitted
\* and the guilds whose cleanup is scheduled
GuildDeleteHandle(st, id, unavailable) ==
    LET guild == Get(st.guilds, id)
    IN IF guild = NoRef
       THEN [st |-> st, ret |-> NoRef, events |-> <<>>, timer |-> {}]
       ELSE IF unavailable
       THEN [st |-> [st EXCEPT !.heap[guild] = Put(@, "available", False)],
             ret |-> NoRef, events |-> <<"guildUnavailable">>, timer |-> {}]
       ELSE [st |-> [st EXCEPT !.guilds = Without(@, id)],
             ret |-> guild, events |-> <<"guildDelete">>, timer |-> {guild}]

\* a GUILD_DELETE payload from the gateway; the handler emits after it has changed
\* the cache, so seen, what client.guilds.resolve(id) yields while the listeners run,
\* is read in the store it leaves
GuildDelete ==
    /\ kind = "none"
    /\ steps < MaxSteps
    /\ \E id \in GuildIds, unavailable \in BOOLEAN :
          \E res \in {GuildDeleteHandle(Cur, id, unavailable)} :
             Commit(res.st,
                    [op |-> "GuildDelete", id |-> id, unavailable |-> unavailable,
                     was |-> Get(guilds, id), ret |-> res.ret, events |-> res.events,
                     seen |-> Get(res.st.guilds, id)],
                    pending, timers \cup res.timer)

\* cleanData: the manager fields of a guild that handleDeletedServer clears where
\* the guild has them
CleanData == {"members", "presences", "stickers", "emojis", "invites", "scheduledEvents",
              "commands", "autoModerationRules", "bans", "stageInstances", "roles",
              "voiceStates"}

\* the caches among them that hold entries
Filled(g) == {f \in CleanData \cap DOMAIN g : g[f] # EmptyRec}

RECURSIVE RemoveChannels(_, _)
RemoveChannels(st, ids) ==
    IF ids = {} THEN st
    ELSE LET id == CHOOSE x \in ids : TRUE
         IN RemoveChannels(ChannelsRemove(st, id), ids \ {id})

\* A variant that cleans whether or not the guild id is cached again.
CleanupAlways ==
    /\ kind = "none"
    /\ steps < MaxSteps
    /\ \E guild \in timers :
          LET s1 == RemoveChannels(Cur, DOMAIN heap[guild].channels)
              s2 == [s1 EXCEPT !.heap[guild] =
                        [f \in DOMAIN @ |-> IF f \in CleanData THEN EmptyRec ELSE @[f]]]
          IN Commit(s2, [op |-> "handleDeletedServer", was |-> guild, ret |-> NoRef,
                         cleared |-> Filled(heap[guild]), events |-> <<>>],
                    pending, timers \ {guild})

\* GuildDeleteAction.handleDeletedServer(guild), when its timer fires
Cleanup ==
    /\ kind = "none"
    /\ steps < MaxSteps
    /\ \E guild \in timers :
          IF heap[guild].id \in DOMAIN guilds
          THEN Commit(Cur, [op |-> "handleDeletedServer", was |-> guild, ret |-> NoRef,
                            cleared |-> {}, events |-> <<>>],
                      pending, timers \ {guild})
          ELSE LET s1 == RemoveChannels(Cur, DOMAIN heap[guild].channels)
                   s2 == [s1 EXCEPT !.heap[guild] =
                             [f \in DOMAIN @ |-> IF f \in CleanData THEN EmptyRec ELSE @[f]]]
               IN Commit(s2, [op |-> "handleDeletedServer", was |-> guild, ret |-> NoRef,
                              cleared |-> Filled(heap[guild]), events |-> <<>>],
                         pending, timers \ {guild})

Next == GuildCreate \/ GuildRepeat \/ RoleUpsert \/ ChannelUpsert \/ ChannelDelete \/ GuildDelete \/ Cleanup

Spec == Init /\ [][Next]_vars

(***************************************************************************)
(* The cache machine: update events.  The handlers of the events that      *)
(* change one field of cached entities, and the positions computed from    *)
(* the caches.                                                             *)
(***************************************************************************)
\* the payloads of VOICE_CHANNEL_STATUS_UPDATE
StatusPayloads ==
    {[id |-> id, guild_id |-> "1", status |-> s] : id \in {"1", "2"}, s \in {"live", "away"}}

\* entity._update(data): a shallow clone taken before the patch, which mutates the
\* instance in place; the clone is returned
Update(store, r, data) ==
    With(store, LAMBDA st :
        With(Alloc(st.heap), LAMBDA old :
            [st |-> [st EXCEPT !.heap = Put(@, old, st.heap[r]),
                               !.heap[r] = PatchOf(@.class, @, data, FALSE)],
             ret |-> old]))

\* A variant whose result names the clone as updated and the instance as old.
VoiceChannelStatusUpdateHandleSwapped(store, data) ==
    With(store, LAMBDA st :
        IF data.id \in DOMAIN st.channels
        THEN With(Update(st, st.channels[data.id], data), LAMBDA res :
                 [st |-> res.st, old |-> st.channels[data.id], ret |-> res.ret])
        ELSE [st |-> st, old |-> NoRef, ret |-> NoRef])

\* VoiceChannelStatusUpdateAction.handle(data): the result's old and updated
VoiceChannelStatusUpdateHandle(store, data) ==
    With(store, LAMBDA st :
        IF data.id \in DOMAIN st.channels
        THEN With(Update(st, st.channels[data.id], data), LAMBDA res :
                 [st |-> res.st, old |-> res.ret, ret |-> st.channels[data.id]])
        ELSE [st |-> st, old |-> NoRef, ret |-> NoRef])

\* the VOICE_CHANNEL_STATUS_UPDATE handler: the action, then the event with the
\* arguments (old, updated) when the result carries both
VoiceChannelStatusUpdate ==
    /\ kind = "none"
    /\ steps < MaxSteps
    /\ \E data \in StatusPayloads :
          \E res \in {VoiceChannelStatusUpdateHandle(Cur, data)} :
             Commit(res.st,
                    [op |-> "VoiceChannelStatusUpdate", data |-> data,
                     was |-> Get(channels, data.id), old |-> res.old, ret |-> res.ret,
                     events |-> IF res.old # NoRef /\ res.ret # NoRef
                                THEN <<"voiceChannelStatusUpdate">> ELSE <<>>,
                     args |-> IF res.old # NoRef /\ res.ret # NoRef
                              THEN <<res.old, res.ret>> ELSE <<>>],
                    pending, timers)

\* getSortableGroupTypes(type): the types sorted together with the type
SortableGroupTypes(type) ==
    CASE type \in {"GUILD_TEXT", "GUILD_NEWS"} -> {"GUILD_TEXT", "GUILD_NEWS"}
      [] type \in {"GUILD_VOICE", "GUILD_STAGE_VOICE"} -> {"GUILD_VOICE", "GUILD_STAGE_VOICE"}
      [] type = "GUILD_CATEGORY" -> {"GUILD_CATEGORY"}
      [] OTHER -> {type}

\* a > b and a === b on rawPosition, which is a number or, never assigned, undefined
RawAbove(a, b) == Has(a, "rawPosition") /\ Has(b, "rawPosition") /\ a.rawPosition > b.rawPosition
RawSame(a, b) ==
    IF Has(a, "rawPosition") /\ Has(b, "rawPosition") THEN a.rawPosition = b.rawPosition
    ELSE ~Has(a, "rawPosition") /\ ~Has(b, "rawPosition")

\* A variant of the test without the comparison of the ids.
RoleCountsRawOnly(this, role) == RawAbove(this, role)

\* the test of Role.position's loop: the role counts the other one
RoleCounts(this, role) ==
    \/ RawAbove(this, role)
    \/ RawSame(this, role) /\ ToBigInt(this.id) < ToBigInt(role.id)

\* A variant that returns the position read before the last update when there is one.
RolePositionRemembered(st, r) ==
    IF Has(last, "read") /\ st.heap[r].id \in DOMAIN last.read
    THEN last.read[st.heap[r].id]
    ELSE Cardinality({id \in DOMAIN st.heap[st.heap[r].guild].roles :
                         RoleCounts(st.heap[r], st.heap[st.heap[st.heap[r].guild].roles[id]])})

\* get Role.position, for the role instance r: the entries of the guild's role cache
\* that the loop counts
RolePosition(st, r) ==
    Cardinality({id \in DOMAIN st.heap[st.heap[r].guild].roles :
                    RoleCounts(st.heap[r], st.heap[st.heap[st.heap[r].guild].roles[id]])})

\* A variant that subtracts the first position from the second.
ComparePositionsSwapped(st, g, id1, id2) ==
    IF id1 \notin DOMAIN st.heap[g].roles \/ id2 \notin DOMAIN st.heap[g].roles
    THEN "INVALID_TYPE"
    ELSE IF RolePosition(st, st.heap[g].roles[id1]) = RolePosition(st, st.heap[g].roles[id2])
    THEN ToBigInt(id2) - ToBigInt(id1)
    ELSE RolePosition(st, st.heap[g].roles[id2]) - RolePosition(st, st.heap[g].roles[id1])

\* RoleManager.comparePositions(role1, role2) on two ids; "INVALID_TYPE" when one
\* of them does not resolve
ComparePositions(st, g, id1, id2) ==
    IF id1 \notin DOMAIN st.heap[g].roles \/ id2 \notin DOMAIN st.heap[g].roles
    THEN "INVALID_TYPE"
    ELSE IF RolePosition(st, st.heap[g].roles[id1]) = RolePosition(st, st.heap[g].roles[id2])
    THEN ToBigInt(id2) - ToBigInt(id1)
    ELSE RolePosition(st, st.heap[g].roles[id1]) - RolePosition(st, st.heap[g].roles[id2])

\* A variant that counts, among equal rawPositions, the channels with the higher id.
ChannelCountsHigherId(this, channel) ==
    /\ channel.type \in SortableGroupTypes(this.type)
    /\ this.type = "GUILD_CATEGORY" \/ channel.parentId = this.parentId
    /\ IF RawSame(this, channel) THEN ToBigInt(channel.id) > ToBigInt(this.id)
       ELSE RawAbove(this, channel)

\* the test of GuildChannel.position's loop: the channel counts the other one
ChannelCounts(this, channel) ==
    /\ channel.type \in SortableGroupTypes(this.type)
    /\ this.type = "GUILD_CATEGORY" \/ channel.parentId = this.parentId
    /\ IF RawSame(this, channel) THEN ToBigInt(channel.id) < ToBigInt(this.id)
       ELSE RawAbove(this, channel)

\* get GuildChannel.position, for the channel instance r of the cached guild g
ChannelPosition(st, g, r) ==
    Cardinality({id \in DOMAIN st.heap[g].channels :
                    ChannelCounts(st.heap[r], st.heap[st.heap[g].channels[id]])})

\* the times at which the server produced the payloads of the position updates; a
\* payload is delivered with its time in sent, which no handler reads
SentAt == {1, 2}

\* the lists of the position updates: id and position of each entry
RolePositionLists ==
    {<<[id |-> "10", position |-> p]>> : p \in {0, 1}}
    \cup {<<[id |-> "11", position |-> p]>> : p \in {0, 1}}
    \cup {<<[id |-> "10", position |-> p], [id |-> "11", position |-> 1 - p]>> : p \in {0, 1}}
ChannelPositionLists ==
    {<<[id |-> "1", position |-> p]>> : p \in {0, 1}}
    \cup {<<[id |-> "8", position |-> p]>> : p \in {0, 1}}
    \cup {<<[id |-> "8", position |-> p], [id |-> "1", position |-> 1 - p]>> : p \in {0, 1}}

\* A variant that moves a listed entry by its listed position.
RECURSIVE SetRawPositionsShifting(_, _, _)
SetRawPositionsShifting(st, cache, list) ==
    IF list = <<>> THEN st
    ELSE SetRawPositionsShifting(
             IF Head(list).id \in DOMAIN cache
             THEN [st EXCEPT !.heap[cache[Head(list).id]] =
                                 Put(@, "rawPosition",
                                     IF Has(@, "rawPosition")
                                     THEN @.rawPosition + Head(list).position
                                     ELSE Head(list).position)]
             ELSE st,
             cache, Tail(list))

\* A variant that leaves the loop at the first entry that is not cached.
RECURSIVE SetRawPositionsStopping(_, _, _)
SetRawPositionsStopping(st, cache, list) ==
    IF list = <<>> \/ Head(list).id \notin DOMAIN cache THEN st
    ELSE SetRawPositionsStopping(
             [st EXCEPT !.heap[cache[Head(list).id]] =
                            Put(@, "rawPosition", Head(list).position)],
             cache, Tail(list))

\* for (const partial of list) { const e = cache.resolve(partial.id);
\*                                if (e) e.rawPosition = partial.position; }
RECURSIVE SetRawPositions(_, _, _)
SetRawPositions(st, cache, list) ==
    IF list = <<>> THEN st
    ELSE SetRawPositions(
             IF Head(list).id \in DOMAIN cache
             THEN [st EXCEPT !.heap[cache[Head(list).id]] =
                                 Put(@, "rawPosition", Head(list).position)]
             ELSE st,
             cache, Tail(list))

\* A variant that drops an update produced before the update handled just before it.
GuildRolesPositionUpdateHandleNewest(store, data) ==
    With(store, LAMBDA st :
        IF data.guild_id \in DOMAIN st.guilds
           /\ ~(last.op = "GuildRolesPositionUpdate" /\ last.data.sent > data.sent)
        THEN [st |-> SetRawPositions(st, st.heap[st.guilds[data.guild_id]].roles, data.roles),
              ret |-> st.guilds[data.guild_id]]
        ELSE [st |-> st, ret |-> Get(st.guilds, data.guild_id)])

\* GuildRolesPositionUpdate.handle(data)
GuildRolesPositionUpdateHandle(store, data) ==
    With(store, LAMBDA st :
        IF data.guild_id \in DOMAIN st.guilds
        THEN [st |-> SetRawPositions(st, st.heap[st.guilds[data.guild_id]].roles, data.roles),
              ret |-> st.guilds[data.guild_id]]
        ELSE [st |-> st, ret |-> NoRef])

\* GuildChannelsPositionUpdate.handle(data)
GuildChannelsPositionUpdateHandle(store, data) ==
    With(store, LAMBDA st :
        IF data.guild_id \in DOMAIN st.guilds
        THEN [st |-> SetRawPositions(st, st.heap[st.guilds[data.guild_id]].channels,
                                     data.channels),
              ret |-> st.guilds[data.guild_id]]
        ELSE [st |-> st, ret |-> NoRef])

\* the positions a reader gets from the entries of a cache
RolePositions(st, g) ==
    IF g = NoRef THEN EmptyRec
    ELSE [id \in DOMAIN st.heap[g].roles |-> RolePosition(st, st.heap[g].roles[id])]
ChannelPositions(st, g) ==
    IF g = NoRef THEN EmptyRec
    ELSE [id \in {i \in DOMAIN st.heap[g].channels :
                     st.heap[st.heap[g].channels[i]].class # "ThreadChannel"} |->
             ChannelPosition(st, g, st.heap[g].channels[id])]

\* the payload of the update handled in the step before, when that was one of the
\* same kind
Earlier(op) == IF last.op = op THEN last.data ELSE EmptyRec

\* a roles position update is handled; the positions are read before it
RolesPositionUpdate ==
    /\ kind = "none"
    /\ steps < MaxSteps
    /\ \E gid \in GuildIds, list \in RolePositionLists, sent \in SentAt :
          \E res \in {GuildRolesPositionUpdateHandle(
                          Cur, [guild_id |-> gid, roles |-> list, sent |-> sent])} :
             Commit(res.st,
                    [op |-> "GuildRolesPositionUpdate",
                     data |-> [guild_id |-> gid, roles |-> list, sent |-> sent],
                     earlier |-> Earlier("GuildRolesPositionUpdate"),
                     read |-> RolePositions(Cur, Get(guilds, gid)),
                     ret |-> res.ret, events |-> <<>>],
                    pending, timers)

\* a channels position update is handled; the positions are read before it
ChannelsPositionUpdate ==
    /\ kind = "none"
    /\ steps < MaxSteps
    /\ \E gid \in GuildIds, list \in ChannelPositionLists, sent \in SentAt :
          \E res \in {GuildChannelsPositionUpdateHandle(
                          Cur, [guild_id |-> gid, channels |-> list, sent |-> sent])} :
             Commit(res.st,
                    [op |-> "GuildChannelsPositionUpdate",
                     data |-> [guild_id |-> gid, channels |-> list, sent |-> sent],
                     earlier |-> Earlier("GuildChannelsPositionUpdate"),
                     read |-> ChannelPositions(Cur, Get(guilds, gid)),
                     ret |-> res.ret, events |-> <<>>],
                    pending, timers)

NextEvents ==
    \/ GuildCreate
    \/ RoleUpsert
    \/ ChannelUpsert
    \/ ChannelDelete
    \/ GuildDelete
    \/ Cleanup
    \/ VoiceChannelStatusUpdate
    \/ RolesPositionUpdate
    \/ ChannelsPositionUpdate

SpecEvents == Init /\ [][NextEvents]_vars

(***************************************************************************)
(* The cache machine: the methods that call REST.  A call that needs REST  *)
(* leaves a request in pending; its continuation runs as a later step with *)
(* the response.                                                           *)
(***************************************************************************)
\* the roles a GET of the guild's roles answers with
RoleLists == {<<SnapEveryone>>, <<SnapEveryone, SnapRole>>}

\* the channel a GET of one channel answers with, among them one of another guild
RestChannels ==
    ChannelPayloads \cup {[id |-> "2", type |-> "GUILD_VOICE", name |-> "v", guild_id |-> "2"]}

\* the guild a GET or PATCH of the guild answers with
RestGuilds == {[id |-> id, name |-> "h", roles |-> <<SnapEveryone>>] : id \in GuildIds}

InviteCodes == {"abc"}

\* the invites a GET of the guild's invites answers with
InviteLists == {<<>>, <<[code |-> "abc"]>>}

\* A variant that answers from the cache also when force is set.
FetchHitIgnoringForce(existing, force) == existing # NoRef

\* if (id && !force) { const existing = this.resolve(id); if (existing) return existing; }
FetchHit(existing, force) == ~force /\ existing # NoRef

\* the method returns the cached instance
Hit(req, existing) ==
    Commit(Cur, [phase |-> "hit", ret |-> existing, events |-> <<>>] @@ req, pending, timers)

\* the method issues its REST request and awaits the response; n tells the
\* requests of two calls with the same arguments apart
Send(req) ==
    /\ Cardinality(pending) < MaxPending
    /\ Commit(Cur, [phase |-> "sent", ret |-> NoRef, events |-> <<>>] @@ req,
              pending \cup {[n |-> steps] @@ req}, timers)

\* the method throws before it issues a request
Thrown(req, error) ==
    Commit(Cur, [phase |-> "thrown", error |-> error, ret |-> NoRef, events |-> <<>>] @@ req,
           pending, timers)

\* the continuation has run on the response data and the promise resolves with ret
Done(req, data, result, t) ==
    \E res \in {result} :
        Commit(res.st, [phase |-> "done", data |-> data, ret |-> res.ret,
                        events |-> IF Has(res, "events") THEN res.events ELSE <<>>] @@ req,
               pending \ {req}, t)

\* the promise rejects, in store st
Fail(req, st, error) ==
    Commit(st, [phase |-> "rejected", error |-> error, ret |-> NoRef, events |-> <<>>] @@ req,
           {q \in pending : q.n # req.n}, timers)

\* for (const role of data) roles.set(role.id, this._add(role, cache))
RECURSIVE FetchedRoles(_, _, _, _, _)
FetchedRoles(st, list, g, cache, col) ==
    IF list = <<>> THEN [st |-> st, col |-> col]
    ELSE With(RolesAdd(st, g, Head(list), cache), LAMBDA res :
             FetchedRoles(res.st, Tail(list), g, cache, Put(col, Head(list).id, res.ret)))

\* RoleManager.fetch(id, {cache, force}), up to the request
RolesFetch ==
    /\ kind = "none"
    /\ steps < MaxSteps
    /\ \E gid \in DOMAIN guilds, id \in RoleIds, cache \in BOOLEAN, force \in BOOLEAN :
          LET g == guilds[gid]
              req == [op |-> "roles.fetch", guild |-> g, id |-> id, cache |-> cache,
                      force |-> force]
              existing == Get(heap[g].roles, id)
          IN IF FetchHit(existing, force) THEN Hit(req, existing) ELSE Send(req)

\* RoleManager.fetch, from the response on
RolesFetchDone ==
    /\ kind = "none"
    /\ steps < MaxSteps
    /\ \E req \in pending, data \in RoleLists :
          /\ req.op = "roles.fetch"
          /\ \E res \in {FetchedRoles(Cur, data, req.guild, req.cache, EmptyRec)} :
                Done(req, data, [st |-> res.st, ret |-> Get(res.col, req.id)], timers)

\* GuildChannelManager.fetch(id, {cache, force}), up to the request
ChannelsFetch ==
    /\ kind = "none"
    /\ steps < MaxSteps
    /\ \E gid \in DOMAIN guilds, id \in {d.id : d \in RestChannels},
          cache \in BOOLEAN, force \in BOOLEAN :
          LET g == guilds[gid]
              req == [op |-> "channels.fetch", guild |-> g, id |-> id, cache |-> cache,
                      force |-> force]
              existing == Get(heap[g].channels, id)
          IN IF FetchHit(existing, force) THEN Hit(req, existing) ELSE Send(req)

\* A variant without the test of the response's guild_id.
ChannelsFetchDoneUnchecked ==
    /\ kind = "none"
    /\ steps < MaxSteps
    /\ \E req \in pending, data \in RestChannels :
          /\ req.op = "channels.fetch"
          /\ data.id = req.id
          /\ Done(req, data, ChannelsAdd(Cur, data, req.guild, req.cache), timers)

\* GuildChannelManager.fetch, from the response on
ChannelsFetchDone ==
    /\ kind = "none"
    /\ steps < MaxSteps
    /\ \E req \in pending, data \in RestChannels :
          /\ req.op = "channels.fetch"
          /\ data.id = req.id
          /\ IF heap[req.guild].id # data.guild_id
             THEN Fail([data |-> data] @@ req, Cur, "GUILD_CHANNEL_UNOWNED")
             ELSE Done(req, data, ChannelsAdd(Cur, data, req.guild, req.cache), timers)

\* GuildManager.fetch({guild, cache, force}), up to the request
GuildsFetch ==
    /\ kind = "none"
    /\ steps < MaxSteps
    /\ \E id \in GuildIds, cache \in BOOLEAN, force \in BOOLEAN :
          LET req == [op |-> "guilds.fetch", id |-> id, cache |-> cache, force |-> force]
              existing == Get(guilds, id)
          IN IF FetchHit(existing, force) THEN Hit(req, existing) ELSE Send(req)

\* GuildManager.fetch, from the response on
GuildsFetchDone ==
    /\ kind = "none"
    /\ steps < MaxSteps
    /\ \E req \in pending, data \in RestGuilds :
          /\ req.op = "guilds.fetch"
          /\ data.id = req.id
          /\ Done(req, data, GuildsAdd(Cur, data, req.cache), timers)

\* GuildInviteManager._add(data, cache): the manager's add keyed by data.code
InvitesAdd(store, g, data, cache) ==
    With(store, LAMBDA st :
        LET c == st.heap[g].invites
        IN IF data.code \in DOMAIN c
           THEN [st |-> [st EXCEPT !.heap[c[data.code]] = Put(@, "code", data.code)],
                 ret |-> c[data.code]]
           ELSE With(Alloc(st.heap), LAMBDA r :
                    [st |-> [st EXCEPT
                                !.heap = Put(@, r, [class |-> "Invite", code |-> data.code,
                                                    guild |-> g]),
                                !.heap[g].invites = IF cache THEN Put(@, data.code, r) ELSE @],
                     ret |-> r]))

\* data.reduce((col, invite) => col.set(invite.code, this._add(invite, cache)), ...)
RECURSIVE FetchedInvites(_, _, _, _, _)
FetchedInvites(st, list, g, cache, col) ==
    IF list = <<>> THEN [st |-> st, col |-> col]
    ELSE With(InvitesAdd(st, g, Head(list), cache), LAMBDA res :
             FetchedInvites(res.st, Tail(list), g, cache, Put(col, Head(list).code, res.ret)))

\* GuildInviteManager._fetchSingle({code, cache, force}), up to the request of _fetchMany
InvitesFetchSingle ==
    /\ kind = "none"
    /\ steps < MaxSteps
    /\ \E gid \in DOMAIN guilds, code \in InviteCodes, cache \in BOOLEAN, force \in BOOLEAN :
          LET g == guilds[gid]
              req == [op |-> "invites._fetchSingle", guild |-> g, id |-> code,
                      cache |-> cache, force |-> force]
              existing == Get(heap[g].invites, code)
          IN IF FetchHit(existing, force) THEN Hit(req, existing) ELSE Send(req)

\* GuildInviteManager._fetchMany and the rest of _fetchSingle, from the response on
InvitesFetchSingleDone ==
    /\ kind = "none"
    /\ steps < MaxSteps
    /\ \E req \in pending, data \in InviteLists :
          /\ req.op = "invites._fetchSingle"
          /\ \E res \in {FetchedInvites(Cur, data, req.guild, req.cache, EmptyRec)} :
                IF Get(res.col, req.id) = NoRef
                THEN Fail(req, res.st, "INVITE_NOT_FOUND")
                ELSE Done(req, data, [st |-> res.st, ret |-> res.col[req.id]], timers)

\* the errors the REST collaborator rejects a request with
RestErrors == {"DiscordAPIError", "HTTPError"}

\* A variant in which the method answers a rejection by issuing its request again.
RestRejectRetrying ==
    /\ kind = "none"
    /\ steps < MaxSteps
    /\ \E req \in pending, e \in RestErrors :
          Commit(Cur, [phase |-> "rejected", rest |-> e, error |-> e, ret |-> NoRef,
                       events |-> <<>>] @@ req,
                 (pending \ {req}) \cup {[req EXCEPT !.n = steps]}, timers)

\* the REST collaborator rejects a request with the error rest: the await of the method
\* throws it, no method catches it, and the promise of the method rejects with it
RestReject ==
    /\ kind = "none"
    /\ steps < MaxSteps
    /\ \E req \in pending, e \in RestErrors : Fail([rest |-> e] @@ req, Cur, e)

\* GuildRoleCreateAction.handle({guild_id, role}): guild.roles._add(role) on the
\* cached guild, roleCreate emitted when the role was not cached
GuildRoleCreateHandle(st, gid, data) ==
    LET guild == Get(st.guilds, gid)
    IN IF guild = NoRef THEN [st |-> st, ret |-> NoRef, events |-> <<>>]
       ELSE RolesAdd(st, guild, data, TRUE)
            @@ [events |-> IF data.id \in DOMAIN st.heap[guild].roles THEN <<>>
                           ELSE <<"roleCreate">>]

\* ChannelCreateAction.handle(data): client.channels._add(data), channelCreate
\* emitted when the channel was not cached
ChannelCreateHandle(st, data) ==
    With(ChannelsAdd(st, data, NoRef, TRUE), LAMBDA res :
        res @@ [events |-> IF data.id \in DOMAIN st.channels \/ res.ret = NoRef THEN <<>>
                           ELSE <<"channelCreate">>])

\* ChannelUpdateAction.handle(data): the cached channel is patched in place and
\* is the result's updated
ChannelUpdateHandle(st, data) ==
    LET channel == Get(st.channels, data.id)
    IN IF channel = NoRef THEN [st |-> st, ret |-> NoRef, events |-> <<>>]
       ELSE [st |-> [st EXCEPT !.heap[channel] = PatchOf(@.class, @, data, FALSE)],
             ret |-> channel, events |-> <<"channelUpdate">>]

\* GuildUpdateAction.handle(data): the cached guild is patched in place and is the
\* result's updated
GuildUpdateHandle(st, data) ==
    LET guild == Get(st.guilds, data.id)
    IN IF guild = NoRef THEN [st |-> st, ret |-> NoRef, events |-> <<>>]
       ELSE [st |-> GuildPatch(st, guild, data), ret |-> guild, events |-> <<"guildUpdate">>]

\* the arguments handed to the methods that take a resolvable: a snowflake string, or a
\* value that is neither a string nor an instance
Malformed == [number |-> 7]
Resolvables(ids) == {[string |-> id] : id \in ids} \cup {Malformed}

\* manager.resolve(idOrInstance) on a string or a malformed value: the cache entry or null
Resolve(cache, arg) == IF Has(arg, "string") THEN Get(cache, arg.string) ELSE NoRef

\* manager.resolveId(idOrInstance) on a string or a malformed value: the string or null
ResolveId(arg) == IF Has(arg, "string") THEN arg.string ELSE Null

\* RoleManager.create(options), up to the request
RolesCreate ==
    /\ kind = "none"
    /\ steps < MaxSteps
    /\ \E gid \in DOMAIN guilds : Send([op |-> "roles.create", guild |-> guilds[gid]])

\* RoleManager.create, from the response on
RolesCreateDone ==
    /\ kind = "none"
    /\ steps < MaxSteps
    /\ \E req \in pending, data \in RolePayloads :
          /\ req.op = "roles.create"
          /\ Done(req, data, GuildRoleCreateHandle(Cur, heap[req.guild].id, data), timers)

\* RoleManager.edit(role, data), up to the request
RolesEdit ==
    /\ kind = "none"
    /\ steps < MaxSteps
    /\ \E gid \in DOMAIN guilds, arg \in Resolvables(RoleIds) :
          LET g == guilds[gid]
              role == Resolve(heap[g].roles, arg)
          IN IF role = NoRef
             THEN Thrown([op |-> "roles.edit", guild |-> g, arg |-> arg, id |-> ResolveId(arg)],
                         "INVALID_TYPE")
             ELSE Send([op |-> "roles.edit", guild |-> g, arg |-> arg, id |-> heap[role].id,
                        inst |-> role])

\* RoleManager.comparePositions(role1, role2): it throws or returns a number
RolesComparePositions ==
    /\ kind = "none"
    /\ steps < MaxSteps
    /\ \E gid \in DOMAIN guilds, arg \in Resolvables(RoleIds), arg2 \in Resolvables(RoleIds) :
          LET g == guilds[gid]
              req == [op |-> "roles.comparePositions", guild |-> g, arg |-> arg, arg2 |-> arg2]
          IN IF Resolve(heap[g].roles, arg) = NoRef \/ Resolve(heap[g].roles, arg2) = NoRef
             THEN Thrown(req, "INVALID_TYPE")
             ELSE Commit(Cur,
                         [phase |-> "returned", ret |-> NoRef, events |-> <<>>,
                          value |-> ComparePositions(Cur, g, arg.string, arg2.string)] @@ req,
                         pending, timers)

\* A variant that patches the cached role with the response and resolves with it.
RolesEditDonePatching ==
    /\ kind = "none"
    /\ steps < MaxSteps
    /\ \E req \in pending, d \in RolePayloads :
          /\ req.op = "roles.edit"
          /\ d.id = req.id
          /\ Done(req, d,
                  [st |-> [Cur EXCEPT !.heap[req.inst] = RolePatch(@, d)],
                   ret |-> req.inst],
                  timers)

\* RoleManager.edit, from the response on: const clone = role._clone(); clone._patch(d)
RolesEditDone ==
    /\ kind = "none"
    /\ steps < MaxSteps
    /\ \E req \in pending, d \in RolePayloads :
          /\ req.op = "roles.edit"
          /\ d.id = req.id
          /\ LET clone == Alloc(heap)
             IN Done(req, d,
                     [st |-> [Cur EXCEPT !.heap = Put(@, clone, RolePatch(heap[req.inst], d))],
                      ret |-> clone],
                     timers)

\* GuildChannelManager.create(name, options), up to the request
ChannelsCreate ==
    /\ kind = "none"
    /\ steps < MaxSteps
    /\ \E gid \in DOMAIN guilds : Send([op |-> "channels.create", guild |-> guilds[gid]])

\* GuildChannelManager.create, from the response on
ChannelsCreateDone ==
    /\ kind = "none"
    /\ steps < MaxSteps
    /\ \E req \in pending, data \in ChannelPayloads :
          /\ req.op = "channels.create"
          /\ Done(req, data, ChannelCreateHandle(Cur, data), timers)

\* GuildChannelManager.edit(channel, data), up to the request
ChannelsEdit ==
    /\ kind = "none"
    /\ steps < MaxSteps
    /\ \E gid \in DOMAIN guilds, arg \in Resolvables({d.id : d \in ChannelPayloads}) :
          LET g == guilds[gid]
              channel == Resolve(heap[g].channels, arg)
          IN IF channel = NoRef
             THEN Thrown([op |-> "channels.edit", guild |-> g, arg |-> arg,
                          id |-> ResolveId(arg)], "INVALID_TYPE")
             ELSE Send([op |-> "channels.edit", guild |-> g, arg |-> arg,
                        id |-> heap[channel].id, inst |-> channel])

\* GuildChannelManager.edit, from the response on
ChannelsEditDone ==
    /\ kind = "none"
    /\ steps < MaxSteps
    /\ \E req \in pending, data \in ChannelPayloads :
          /\ req.op = "channels.edit"
          /\ data.id = req.id
          /\ Done(req, data, ChannelUpdateHandle(Cur, data), timers)

\* A variant that issues the request without looking at what resolveId returns.
ChannelsDeleteUnchecked ==
    /\ kind = "none"
    /\ steps < MaxSteps
    /\ \E gid \in DOMAIN guilds, arg \in Resolvables(ChannelIds) :
          Send([op |-> "channels.delete", guild |-> guilds[gid], arg |-> arg,
                id |-> ResolveId(arg)])

\* GuildChannelManager.delete(channel), up to the request: resolveId keeps an id as it
\* is, cached or not
ChannelsDelete ==
    /\ kind = "none"
    /\ steps < MaxSteps
    /\ \E gid \in DOMAIN guilds, arg \in Resolvables(ChannelIds) :
          IF ResolveId(arg) = Null
          THEN Thrown([op |-> "channels.delete", guild |-> guilds[gid], arg |-> arg,
                       id |-> Null], "INVALID_TYPE")
          ELSE Send([op |-> "channels.delete", guild |-> guilds[gid], arg |-> arg,
                     id |-> ResolveId(arg)])

\* GuildChannelManager.delete, from the response on: the method returns nothing
ChannelsDeleteDone ==
    /\ kind = "none"
    /\ steps < MaxSteps
    /\ \E req \in pending :
          /\ req.op = "channels.delete"
          /\ Done(req, EmptyRec, [st |-> Cur, ret |-> NoRef], timers)

\* Guild.edit(data), up to the request
GuildEdit ==
    /\ kind = "none"
    /\ steps < MaxSteps
    /\ \E gid \in DOMAIN guilds : Send([op |-> "Guild.edit", guild |-> guilds[gid], id |-> gid])

\* Guild.edit, from the response on
GuildEditDone ==
    /\ kind = "none"
    /\ steps < MaxSteps
    /\ \E req \in pending, data \in RestGuilds :
          /\ req.op = "Guild.edit"
          /\ data.id = req.id
          /\ Done(req, data, GuildUpdateHandle(Cur, data), timers)

\* Guild.delete() and Guild.leave(), up to the request
GuildRemove ==
    /\ kind = "none"
    /\ steps < MaxSteps
    /\ \E gid \in DOMAIN guilds :
          Send([op |-> "Guild.delete", guild |-> guilds[gid], id |-> gid])


\* A variant whose continuation removes the guild it was called on and emits
\* guildDelete without resolving the id.
GuildRemoveDoneHeld ==
    /\ kind = "none"
    /\ steps < MaxSteps
    /\ \E req \in pending :
          /\ req.op = "Guild.delete"
          /\ Done(req, [id |-> req.id],
                  [st |-> [guilds |-> Without(guilds, req.id), channels |-> channels,
                           heap |-> heap],
                   ret |-> req.guild, events |-> <<"guildDelete">>],
                  timers \cup {req.guild})

\* Guild.delete() and Guild.leave(), from the response on
GuildRemoveDone ==
    /\ kind = "none"
    /\ steps < MaxSteps
    /\ \E req \in pending :
          /\ req.op = "Guild.delete"
          /\ \E res \in {GuildDeleteHandle(Cur, req.id, FALSE)} :
                Done(req, [id |-> req.id], res, timers \cup res.timer)

NextRest ==
    \/ GuildCreate
    \/ RolesFetch \/ RolesFetchDone
    \/ ChannelsFetch \/ ChannelsFetchDone
    \/ GuildsFetch \/ GuildsFetchDone
    \/ InvitesFetchSingle \/ InvitesFetchSingleDone
    \/ RolesCreate \/ RolesCreateDone
    \/ RolesEdit \/ RolesEditDone
    \/ RolesComparePositions
    \/ ChannelsCreate \/ ChannelsCreateDone
    \/ ChannelsEdit \/ ChannelsEditDone
    \/ ChannelsDelete \/ ChannelsDeleteDone
    \/ GuildEdit \/ GuildEditDone
    \/ GuildRemove \/ GuildRemoveDone
    \/ RestReject

SpecRest == Init /\ [][NextRest]_vars


\* the classes of the guild-scoped entities
GuildScoped == {"Role", "ThreadChannel", "TextChannel", "NewsChannel", "VoiceChannel",
                "StageChannel", "ForumChannel", "CategoryChannel"}

\* reading entity.guild: Role and ThreadChannel return the field their constructor
\* set, GuildChannel resolves its guildId through client.guilds
GuildOf(st, r) ==
    IF Has(st.heap[r], "guild") THEN st.heap[r].guild
    ELSE IF Has(st.heap[r], "guildId") THEN Get(st.guilds, st.heap[r].guildId)
    ELSE NoRef

\* guild instanceof GuildChannel || ... || guild instanceof Role ||
\* (guild instanceof Invite && guild.guild), for the instance r
ResolvesThroughGuild(st, r) ==
    \/ st.heap[r].class \in GuildScoped \ {"ThreadChannel"}
    \/ st.heap[r].class = "Invite" /\ GuildOf(st, r) # NoRef

\* GuildManager.resolve(guild): the argument is an id, a malformed value or an instance
GuildsResolve(st, arg) ==
    IF ~Has(arg, "instance") THEN Resolve(st.guilds, arg)
    ELSE IF ResolvesThroughGuild(st, arg.instance) THEN GuildOf(st, arg.instance)
    ELSE IF st.heap[arg.instance].class = "Guild" THEN arg.instance
    ELSE NoRef

\* GuildManager.resolveId(guild): the id, null, or the error of reading the id of the
\* null that guild.guild yields
GuildsResolveIdOf(st, arg) ==
    IF ~Has(arg, "instance") THEN [kind |-> "value", value |-> ResolveId(arg)]
    ELSE IF ResolvesThroughGuild(st, arg.instance)
    THEN IF GuildOf(st, arg.instance) = NoRef THEN [kind |-> "TypeError"]
         ELSE [kind |-> "value", value |-> st.heap[GuildOf(st, arg.instance)].id]
    ELSE IF st.heap[arg.instance].class = "Guild"
    THEN [kind |-> "value", value |-> st.heap[arg.instance].id]
    ELSE [kind |-> "value", value |-> Null]

\* client.guilds.resolveId(guild) and client.guilds.resolve(guild) are called
GuildsResolveId ==
    /\ kind = "none"
    /\ steps < MaxSteps
    /\ \E arg \in Resolvables(GuildIds) \cup {[instance |-> r] : r \in DOMAIN heap} :
          Commit(Cur,
                 [op |-> "guilds.resolveId", arg |-> arg,
                  inst |-> IF Has(arg, "instance") THEN arg.instance ELSE NoRef,
                  resolved |-> GuildsResolve(Cur, arg),
                  result |-> GuildsResolveIdOf(Cur, arg),
                  ret |-> NoRef, events |-> <<>>],
                 pending, timers)


\* role payloads and position updates from the gateway together with calls of
\* comparePositions
NextCompare ==
    \/ GuildCreate
    \/ RoleUpsert
    \/ RolesPositionUpdate
    \/ RolesComparePositions

SpecCompare == Init /\ [][NextCompare]_vars


\* guild creation, deletion, re-creation and the deferred cleanups alone
NextRecreate == GuildCreate \/ GuildDelete \/ Cleanup

SpecRecreate == Init /\ [][NextRecreate]_vars

\* Guild.delete() and Guild.leave() together with the gateway's GUILD_DELETE and the
\* cleanup it schedules
NextLeave ==
    \/ GuildCreate
    \/ GuildRemove \/ GuildRemoveDone
    \/ GuildDelete
    \/ Cleanup
    \/ RestReject
    \/ GuildsResolveId

SpecLeave == Init /\ [][NextLeave]_vars


(***************************************************************************)
(* Permissions of roles and members in a guild channel                     *)
(***************************************************************************)
\* bitfield & bits
RECURSIVE BitAnd(_, _)
BitAnd(a, b) ==
    IF a = 0 \/ b = 0 THEN 0
    ELSE (a % 2) * (b % 2) + 2 * BitAnd(a \div 2, b \div 2)

\* BitField.remove(bits): bitfield & ~bits
BitRemove(a, b) == a - BitAnd(a, b)

\* BitField.add(bits): bitfield | bits
BitAdd(a, b) == a + b - BitAnd(a, b)

\* BitField.has(bit): (bitfield & bit) === bit
BitHas(a, b) == BitAnd(a, b) = b

\* BitField.resolve of an array of bitfields: all of them or-ed
RECURSIVE BitAny(_)
BitAny(S) ==
    IF S = {} THEN 0
    ELSE LET x == CHOOSE x \in S : TRUE
         IN BitAdd(x, BitAny(S \ {x}))

\* Permissions.defaultBit, Permissions.FLAGS.ADMINISTRATOR (1 << 3) and
\* Permissions.ALL, here the flags from CREATE_INSTANT_INVITE through VIEW_CHANNEL
DefaultBit == 0
ADMINISTRATOR == 8
PermissionsAll == 2047

\* overwrite?.deny ?? Permissions.defaultBit and overwrite?.allow ?? Permissions.defaultBit
DenyOf(cache, id) == IF id \in DOMAIN cache THEN cache[id].deny ELSE DefaultBit
AllowOf(cache, id) == IF id \in DOMAIN cache THEN cache[id].allow ELSE DefaultBit

\* permissions.remove(overwrite deny).add(overwrite allow)
Overwritten(p, cache, id) == BitAdd(BitRemove(p, DenyOf(cache, id)), AllowOf(cache, id))

\* A variant that applies the overwrites whatever checkAdmin is.
RolePermissionsNoOverride(st, c, g, role, checkAdmin) ==
    IF ~Has(st.heap[role], "permissions") THEN [kind |-> "TypeError"]
    ELSE [kind |-> "value",
          value |-> Overwritten(Overwritten(st.heap[role].permissions,
                                            st.heap[c].permissionOverwrites, st.heap[g].id),
                                st.heap[c].permissionOverwrites, st.heap[role].id)]

\* GuildChannel.rolePermissions(role, checkAdmin), in channel c of guild g
RolePermissions(st, c, g, role, checkAdmin) ==
    IF ~Has(st.heap[role], "permissions") THEN [kind |-> "TypeError"]
    ELSE IF checkAdmin /\ BitHas(st.heap[role].permissions, ADMINISTRATOR)
    THEN [kind |-> "value", value |-> PermissionsAll]
    ELSE [kind |-> "value",
          value |-> Overwritten(Overwritten(st.heap[role].permissions,
                                            st.heap[c].permissionOverwrites, st.heap[g].id),
                                st.heap[c].permissionOverwrites, st.heap[role].id)]

\* GuildChannel.overwritesFor(member, true, roles): the ids of the overwrites that
\* count as role overwrites, and whether the member's own overwrite counts
RoleOverwriteIds(st, c, g, member) ==
    {id \in DOMAIN st.heap[c].permissionOverwrites :
        id # st.heap[g].id /\ id \in {st.heap[r].id : r \in member.roles}}

MemberOverwriteId(st, c, g, member) ==
    IF member.id # st.heap[g].id /\ member.id \notin RoleOverwriteIds(st, c, g, member)
    THEN member.id ELSE Null

\* GuildChannel.memberPermissions(member, checkAdmin): member is a GuildMember with
\* its id and the roles of its role cache
MemberPermissions(st, c, g, member, checkAdmin) ==
    IF checkAdmin /\ Has(st.heap[g], "ownerId") /\ member.id = st.heap[g].ownerId
    THEN [kind |-> "value", value |-> PermissionsAll]
    ELSE IF \E r \in member.roles : ~Has(st.heap[r], "permissions")
    THEN [kind |-> "RangeError"]
    ELSE With(BitAny({st.heap[r].permissions : r \in member.roles}), LAMBDA permissions :
        IF checkAdmin /\ BitHas(permissions, ADMINISTRATOR)
        THEN [kind |-> "value", value |-> PermissionsAll]
        ELSE With(st.heap[c].permissionOverwrites, LAMBDA ow :
            LET p1 == Overwritten(permissions, ow, st.heap[g].id)
                p2 == BitRemove(p1, BitAny({ow[id].deny :
                                               id \in RoleOverwriteIds(st, c, g, member)}))
                p3 == BitAdd(p2, BitAny({ow[id].allow :
                                            id \in RoleOverwriteIds(st, c, g, member)}))
            IN [kind |-> "value",
                value |-> Overwritten(p3, ow, MemberOverwriteId(st, c, g, member))]))

\* GuildChannel.permissionsFor(memberOrRole, checkAdmin)
PermissionsFor(st, c, x, checkAdmin) ==
    With(GuildOf(st, c), LAMBDA g :
        IF g = NoRef THEN [kind |-> "TypeError"]
        ELSE IF Has(x, "roles") THEN MemberPermissions(st, c, g, x, checkAdmin)
        ELSE With(Resolve(st.heap[g].roles, x), LAMBDA role :
                 IF role = NoRef THEN [kind |-> "null"]
                 ELSE RolePermissions(st, c, g, role, checkAdmin)))

\* the ids of a cache in ascending order: the order of insertion, as the overwrite
\* lists of the payloads are ascending
RECURSIVE KeyOrder(_)
KeyOrder(ids) ==
    IF ids = {} THEN <<>>
    ELSE LET id == CHOOSE x \in ids : \A y \in ids : ToBigInt(x) <= ToBigInt(y)
         IN <<id>> \o KeyOrder(ids \ {id})

\* deny.bitfield === Permissions.defaultBit && allow.bitfield === Permissions.defaultBit
EmptyOverwrite(o) == o.deny = DefaultBit /\ o.allow = DefaultBit

\* the callback of every() in permissionsLocked for one key of the union: the value
\* it returns, or the error of reading a field of the null that resolve returned
LockedAt(cv, pv, key) ==
    IF key \notin DOMAIN cv
    THEN IF EmptyOverwrite(pv[key]) THEN True ELSE "TypeError"
    ELSE IF key \notin DOMAIN pv
    THEN IF EmptyOverwrite(cv[key]) THEN True ELSE "TypeError"
    ELSE IF cv[key].deny = pv[key].deny /\ cv[key].allow = pv[key].allow
    THEN True ELSE False

\* [...overwriteIds].every(callback)
RECURSIVE LockedEvery(_, _, _)
LockedEvery(cv, pv, keys) ==
    IF keys = <<>> THEN True
    ELSE With(LockedAt(cv, pv, Head(keys)), LAMBDA v :
             IF v = True THEN LockedEvery(cv, pv, Tail(keys)) ELSE v)

\* get parent(): this.guild.channels.resolve(this.parentId)
ParentOf(st, c) ==
    IF GuildOf(st, c) = NoRef THEN NoRef
    ELSE Get(st.heap[GuildOf(st, c)].channels, st.heap[c].parentId)

\* get permissionsLocked()
PermissionsLocked(st, c) ==
    With(ParentOf(st, c), LAMBDA parent :
        IF parent = NoRef THEN Null
        ELSE With(<<st.heap[c].permissionOverwrites, st.heap[parent].permissionOverwrites>>,
                  LAMBDA o : LockedEvery(o[1], o[2],
                                         KeyOrder(DOMAIN o[1])
                                            \o KeyOrder(DOMAIN o[2] \ DOMAIN o[1]))))

\* payloads of roles with permissions, and of a category and a text channel in it
\* with permission overwrites; the everyone overwrite has the id of the guild
PermissionRolePayloads ==
    {[id |-> id, name |-> "p", permissions |-> p] : id \in RoleIds, p \in {"9", "3"}}

OverwriteLists ==
    {<<>>,
     <<[id |-> "1", allow |-> "0", deny |-> "1"]>>,
     <<[id |-> "10", allow |-> "0", deny |-> "0"]>>,
     <<[id |-> "10", allow |-> "2", deny |-> "1"]>>,
     <<[id |-> "1", allow |-> "0", deny |-> "1"],
       [id |-> "10", allow |-> "1", deny |-> "2"]>>}

OverwritePayloads ==
    {[id |-> "3", type |-> "GUILD_CATEGORY", name |-> "cat", guild_id |-> "1",
      permission_overwrites |-> ow] : ow \in OverwriteLists}
    \cup {[id |-> "1", type |-> "GUILD_TEXT", name |-> "c", guild_id |-> "1",
           parent_id |-> "3", permission_overwrites |-> ow] : ow \in OverwriteLists}

\* the guild members handed to permissionsFor: an id and a non-empty role cache
Members(g) ==
    {[id |-> "7", roles |-> S] :
        S \in SUBSET {heap[g].roles[id] : id \in DOMAIN heap[g].roles} \ {{}}}

\* the channels of a guild that are guild channels
GuildChannelsOf(g) ==
    {c \in {heap[g].channels[id] : id \in DOMAIN heap[g].channels} :
        heap[c].class \in GuildScoped \ {"Role", "ThreadChannel"}}

\* a role payload with permissions from the gateway
RolePermissionsUpsert ==
    /\ kind = "none"
    /\ steps < MaxSteps
    /\ \E gid \in DOMAIN guilds, data \in PermissionRolePayloads :
          \E g \in {guilds[gid]} : \E res \in {RolesAdd(Cur, g, data, TRUE)} :
             Commit(res.st,
                    [op |-> "roles._add", guild |-> g, data |-> data,
                     was |-> Get(heap[g].roles, data.id), ret |-> res.ret, events |-> <<>>],
                    pending, timers)

\* a channel payload with permission overwrites from the gateway
ChannelOverwritesUpsert ==
    /\ kind = "none"
    /\ steps < MaxSteps
    /\ \E data \in OverwritePayloads :
          \E res \in {ChannelsAdd(Cur, data, NoRef, TRUE)} :
             Commit(res.st,
                    [op |-> "channels._add", data |-> data,
                     was |-> Get(channels, data.id), ret |-> res.ret, events |-> <<>>],
                    pending, timers)

\* channel.permissionsFor(memberOrRole, checkAdmin) is called
ChannelPermissionsFor ==
    /\ kind = "none"
    /\ steps < MaxSteps
    /\ \E gid \in DOMAIN guilds :
          \E c \in GuildChannelsOf(guilds[gid]),
             x \in Resolvables(RoleIds) \cup Members(guilds[gid]), checkAdmin \in BOOLEAN :
                Commit(Cur,
                       [op |-> "permissionsFor", guild |-> guilds[gid], inst |-> c,
                        arg |-> x, checkAdmin |-> checkAdmin,
                        result |-> PermissionsFor(Cur, c, x, checkAdmin),
                        ret |-> NoRef, events |-> <<>>],
                       pending, timers)

\* channel.permissionsLocked is read
ChannelPermissionsLocked ==
    /\ kind = "none"
    /\ steps < MaxSteps
    /\ \E gid \in DOMAIN guilds :
          \E c \in GuildChannelsOf(guilds[gid]) :
             Commit(Cur,
                    [op |-> "permissionsLocked", guild |-> guilds[gid], inst |-> c,
                     value |-> PermissionsLocked(Cur, c), ret |-> NoRef, events |-> <<>>],
                    pending, timers)

NextPermissions ==
    \/ GuildCreate
    \/ RolePermissionsUpsert
    \/ ChannelOverwritesUpsert
    \/ ChannelPermissionsFor
    \/ ChannelPermissionsLocked

SpecPermissions == Init /\ [][NextPermissions]_vars

(***************************************************************************)
(* Clones of guild channels.  The permission-overwrite manager of a        *)
(* channel is an object of its own, held by reference in the channel's     *)
(* permissionOverwrites field, so that two channel objects can share one.  *)
(***************************************************************************)
\* new PermissionOverwriteManager(channel): the manager and its cache
OverwriteManagerNew(channel, cache) ==
    [class |-> "PermissionOverwriteManager", channel |-> channel, cache |-> cache]

\* new PermissionOverwrites(client, overwrite, channel) on a cached overwrite
OverwriteAgain(o) == [id |-> o.id, allow |-> o.allow, deny |-> o.deny]

\* the channel with the cache of its manager in the place of the reference
Flat(h, c) == Put(h[c], "permissionOverwrites", h[h[c].permissionOverwrites].cache)

\* channel._patch(data): the fields are assigned on the channel, and the overwrite
\* cache is cleared and filled in the manager the channel refers to
PatchThrough(h, c, data) ==
    With(<<h[c].permissionOverwrites, PatchOf(h[c].class, Flat(h, c), data, FALSE)>>,
         LAMBDA p :
            [h EXCEPT ![c] = Put(p[2], "permissionOverwrites", p[1]),
                      ![p[1]].cache = p[2].permissionOverwrites])

\* A variant that keeps the copy Base._clone makes, the manager shared with it.
GuildChannelCloneShallow(h, c) ==
    With(Alloc(h), LAMBDA clone : [heap |-> Put(h, clone, h[c]), ret |-> clone])

\* GuildChannel._clone: the copy of Base._clone, given a new manager that _adds
\* every value of this channel's overwrite cache
GuildChannelClone(h, c) ==
    With(Alloc(h), LAMBDA clone :
        With(Alloc(Put(h, clone, h[c])), LAMBDA manager :
            [heap |-> Put(Put(h, clone, Put(h[c], "permissionOverwrites", manager)),
                          manager,
                          OverwriteManagerNew(clone,
                              [k \in DOMAIN h[h[c].permissionOverwrites].cache |->
                                  OverwriteAgain(h[h[c].permissionOverwrites].cache[k])])),
             ret |-> clone]))

\* the payloads of CHANNEL_UPDATE: with an overwrite array, or with a name alone
OverwriteUpdates ==
    OverwritePayloads \cup {[id |-> id, name |-> "d"] : id \in {"1", "3"}}

\* a guild channel is constructed from a payload and cached: the constructor makes
\* the manager and calls _patch
GuildChannelConstruct ==
    /\ kind = "none"
    /\ steps < MaxSteps
    /\ \E data \in OverwritePayloads :
          /\ data.id \notin DOMAIN channels
          /\ \E c \in {Alloc(heap)} :
                \E manager \in {Alloc(Put(heap, c, EmptyRec))} :
                   /\ heap' = PatchThrough(
                                 Put(Put(heap, c,
                                         Put(ChannelNew(ChannelClassOf(data), data, NoRef, "1"),
                                             "permissionOverwrites", manager)),
                                     manager, OverwriteManagerNew(c, EmptyRec)),
                                 c, data)
                   /\ channels' = Put(channels, data.id, c)
                   /\ last' = [op |-> "GuildChannel", id |-> data.id, ret |-> c]
    /\ steps' = steps + 1
    /\ UNCHANGED <<kind, ent, prev, base, hist, guilds, pending, timers>>

\* channel._update(data) on a cached guild channel: const clone = this._clone();
\* this._patch(data); return clone
GuildChannelUpdate ==
    /\ kind = "none"
    /\ steps < MaxSteps
    /\ \E data \in OverwriteUpdates :
          /\ data.id \in DOMAIN channels
          /\ \E res \in {GuildChannelClone(heap, channels[data.id])} :
                /\ heap' = PatchThrough(res.heap, channels[data.id], data)
                /\ last' = [op |-> "GuildChannel._update", id |-> data.id, data |-> data,
                            inst |-> channels[data.id], ret |-> res.ret]
    /\ steps' = steps + 1
    /\ UNCHANGED <<kind, ent, prev, base, hist, guilds, channels, pending, timers>>

NextClone == GuildChannelConstruct \/ GuildChannelUpdate

SpecClone == Init /\ [][NextClone]_vars

(***************************************************************************)
(* The patch harness: an entity is constructed and _patch is called on it  *)
(***************************************************************************)
InitPatch ==
    /\ kind \in Kinds
    /\ \E d \in InitPayloads(kind) : ent = New(kind, d)
    /\ prev = ent
    /\ base = ent
    /\ hist = <<>>
    /\ CacheIdle

PartialArgs(k) == IF k = "ThreadChannel" THEN BOOLEAN ELSE {FALSE}

DoPatch(data, partial) ==
    /\ ent' = PatchOf(kind, ent, data, partial)
    /\ prev' = ent
    /\ hist' = Append(hist, [data |-> data, partial |-> partial])
    /\ UNCHANGED <<kind, base>>
    /\ UNCHANGED cacheVars

\* the first _patch after construction, with any payload
Patch ==
    /\ kind \in Kinds
    /\ hist = <<>>
    /\ \E data \in Payloads[kind], partial \in PartialArgs(kind) : DoPatch(data, partial)

\* the same payload is applied a second time
PatchAgain ==
    /\ kind \in Kinds
    /\ Len(hist) = 1
    /\ DoPatch(hist[1].data, hist[1].partial)

\* the first of two sparse patches
PatchSparse ==
    /\ kind \in {"Role"} \cup ChannelKinds
    /\ hist = <<>>
    /\ \E data \in Sparse[kind] : DoPatch(data, FALSE)

\* the second of two sparse patches
PatchSparseSecond ==
    /\ kind \in {"Role"} \cup ChannelKinds
    /\ Len(hist) = 1
    /\ \E data \in Sparse[kind] : DoPatch(data, FALSE)

NextPatch == Patch \/ PatchAgain

SpecPatch == InitPatch /\ [][NextPatch]_vars

InitMerge == InitPatch /\ kind \in {"Role"} \cup ChannelKinds

NextMerge == PatchSparse \/ PatchSparseSecond

SpecMerge == InitMerge /\ [][NextMerge]_vars

\* the patch harness and the guild snapshots of the cache machine
InitIdem == InitPatch \/ Init

NextIdem == Patch \/ PatchAgain \/ GuildCreate \/ GuildRepeat

SpecIdem == InitIdem /\ [][NextIdem]_vars

(***************************************************************************)
(* Properties of _patch                                                    *)
(***************************************************************************)
\* field f is the same in a and b: set in both to one value, or set in neither
FieldSame(a, b, f) == (Has(a, f) <=> Has(b, f)) /\ (Has(a, f) => a[f] = b[f])

\* the payload of the last _patch call
LastData == hist[Len(hist)].data

\* wire key -> entity field, for guild channels
ChannelField(k) ==
    CASE k = "position" -> "rawPosition"
      [] k = "parent_id" -> "parentId"
      [] k = "permission_overwrites" -> "permissionOverwrites"
      [] OTHER -> k

\* C1: after role._patch(P), every role field whose wire key is absent from P has
\* the value it had before the patch.
C1_RoleAbsentKeysKept ==
    (kind = "Role" /\ hist # <<>>) =>
        \A k \in RoleKeys : ~Has(LastData, k) => FieldSame(prev, ent, RoleField(k))

\* C2: after _patch(P) on a text, voice, stage or forum channel, the field of every
\* key among name, position, parent_id, topic, nsfw, flags and permission_overwrites
\* that P omits is unchanged; a text channel built from {id, name, nsfw: false} and
\* patched with {id, topic} has its name, its nsfw and the new topic.
C2_ChannelAbsentKeysKept ==
    (kind \in ChannelKinds /\ hist # <<>>) =>
        /\ \A k \in CoreChannelKeys :
              ~Has(LastData, k) => FieldSame(prev, ent, ChannelField(k))
        /\ ( /\ kind = "TextChannel"
             /\ Len(hist) = 1
             /\ base = TextChannelNew([id |-> "1", type |-> "GUILD_TEXT",
                                       name |-> "general", nsfw |-> False], "1")
             /\ LastData = [id |-> "1", topic |-> "hi"] )
           => (ent.name = "general" /\ ent.nsfw = False /\ ent.topic = "hi")

\* C2 witness: the text channel of the scenario has been patched with {id, topic}.
C2_Witness ==
    /\ kind = "TextChannel"
    /\ Len(hist) = 1
    /\ LastData = [id |-> "1", topic |-> "hi"]
    /\ ~Has(base, "topic")
    /\ Has(base, "name") /\ base.name = "general"
    /\ Has(ent, "topic") /\ ent.topic = "hi"

\* field-wise union of two payloads, the later one winning
Merge(p1, p2) == p2 @@ p1

\* C3: _patch(P1) then _patch(P2) leaves a Role or GuildChannel with the field
\* values of one _patch(P1 union P2), the later payload winning on overlap.
C3_MergeLaw ==
    (kind \in {"Role"} \cup ChannelKinds /\ Len(hist) = 2) =>
        ent = PatchOf(kind, base, Merge(hist[1].data, hist[2].data), FALSE)

(***************************************************************************)
(* Properties of the caches                                                *)
(***************************************************************************)
\* the store the step ends in
CurNext == [guilds |-> guilds', channels |-> channels', heap |-> heap']

\* the entries of a cache, each instance given by its fields
Entries(h, cache) == [id \in DOMAIN cache |-> h[cache[id]]]

\* what can be observed of guild g: its fields, its caches, and the ids client.channels holds
GuildView(st, g) ==
    LET o == st.heap[g]
    IN [fields |-> [f \in DOMAIN o \ {"roles", "channels", "voiceStates", "invites"} |-> o[f]],
        roles |-> Entries(st.heap, o.roles),
        channels |-> Entries(st.heap, o.channels),
        voiceStates |-> Entries(st.heap, o.voiceStates),
        clientChannels |-> DOMAIN st.channels]

C5_IdentityStable ==
    [][ /\ (last'.op = "roles._add" /\ last'.was # NoRef) =>
              /\ last'.ret = last'.was
              /\ heap'[last'.guild].roles = heap[last'.guild].roles
              /\ heap'[last'.ret] = RolePatch(heap[last'.ret], last'.data)
        /\ (last'.op = "channels._add" /\ last'.was # NoRef) =>
              /\ last'.ret = last'.was
              /\ channels' = channels
              /\ \A gid \in DOMAIN guilds :
                    heap'[guilds[gid]].channels = heap[guilds[gid]].channels
              /\ heap'[last'.ret] =
                    PatchOf(heap[last'.ret].class, heap[last'.ret], last'.data, FALSE)
        /\ (last'.op \in {"guilds._add", "Guild._patch"} /\ last'.was # NoRef) =>
              LET g == last'.was
              IN /\ \A id \in DOMAIN heap[g].roles \cap DOMAIN heap'[g].roles :
                        heap'[g].roles[id] = heap[g].roles[id]
                 /\ \A id \in DOMAIN heap[g].channels \cap DOMAIN heap'[g].channels :
                        heap'[g].channels[id] = heap[g].channels[id] ]_vars

\* every field of a but deleted has in b the value it has in a
KeptButDeleted(a, b) ==
    /\ DOMAIN a = DOMAIN b
    /\ \A f \in DOMAIN a \ {"deleted"} : a[f] = b[f]

\* C6: after ChannelDelete, or GuildDelete with a payload that is not unavailable,
\* has removed a cached channel or guild, resolve(id) on the manager is null and
\* the instance in the handler's result has its last field values and deleted true.
C6_Tombstone ==
    [][ /\ (last'.op = "ChannelDelete" /\ Get(channels, last'.id) # NoRef) =>
              /\ last'.ret = channels[last'.id]
              /\ Get(channels', last'.id) = NoRef
              /\ KeptButDeleted(heap[last'.ret], heap'[last'.ret])
              /\ heap'[last'.ret].deleted = True
        /\ (last'.op = "GuildDelete" /\ ~last'.unavailable /\ last'.was # NoRef) =>
              /\ last'.ret = last'.was
              /\ Get(guilds', last'.id) = NoRef
              /\ KeptButDeleted(heap[last'.ret], heap'[last'.ret])
              /\ heap'[last'.ret].deleted = True ]_vars

\* the ids of the entries of an array
IdsOf(list) == {list[i].id : i \in DOMAIN list}

\* the ids of the entries of an array for which client.channels._add yields a
\* channel: the id is in client.channels.cache or the type has a class
Yielded(st, data, k) ==
    IF Has(data, k)
    THEN {data[k][i].id : i \in {j \in DOMAIN data[k] :
                                   \/ data[k][j].id \in DOMAIN st.channels
                                   \/ ChannelClassOf(data[k][j]) # "none"}}
    ELSE {}

\* the spec's snapshot
SnapshotScenario ==
    [id |-> "1", name |-> "g", channels |-> <<SnapText>>, roles |-> <<SnapEveryone>>]

Ran(l, ops) == Has(l, "phase") /\ l.op \in ops

FetchOps == {"roles.fetch", "channels.fetch", "guilds.fetch", "invites._fetchSingle"}

\* the cache the fetch of l resolves its id in, in store st
FetchCache(st, l) ==
    CASE l.op = "roles.fetch" -> st.heap[l.guild].roles
      [] l.op = "channels.fetch" -> st.heap[l.guild].channels
      [] l.op = "guilds.fetch" -> st.guilds
      [] l.op = "invites._fetchSingle" -> st.heap[l.guild].invites

\* the step changes no cache and no instance that is still referenced
Untouched ==
    /\ guilds' = guilds
    /\ channels' = channels
    /\ \A r \in DOMAIN heap' : r \in DOMAIN heap /\ heap'[r] = heap[r]

\* the key an instance is cached under
KeyOf(o) == IF o.class = "Invite" THEN o.code ELSE o.id

\* C8: a fetch of a cached id without force resolves with the cached instance,
\* issues no REST request and leaves the store as it is; with force, or on a miss,
\* it issues exactly one request, and the continuation resolves with an instance of
\* the id fetched, which the manager's cache holds under that id when cache is true.
C8_FetchCacheHit ==
    [][ Ran(last', FetchOps) =>
          LET l == last'
              existing == Get(FetchCache(Cur, l), l.id)
          IN /\ l.phase \in {"hit", "sent"} =>
                   IF ~l.force /\ existing # NoRef
                   THEN /\ l.phase = "hit"
                        /\ l.ret = existing
                        /\ pending' = pending
                        /\ Untouched
                   ELSE /\ l.phase = "sent"
                        /\ Cardinality(pending') = Cardinality(pending) + 1
                        /\ Untouched
             /\ (l.phase = "done" /\ l.ret # NoRef) =>
                   /\ KeyOf(heap'[l.ret]) = l.id
                   /\ Cardinality(pending') = Cardinality(pending) - 1
                   /\ l.cache => Get(FetchCache(CurNext, l), l.id) = l.ret ]_vars

\* C8 witness: a fetch without force has resolved with the cached instance.
C8_Witness ==
    /\ Ran(last, FetchOps)
    /\ last.phase = "hit"
    /\ ~last.force
    /\ last.ret # NoRef
    /\ pending = {}

\* C9: when the continuation of a fetch called with cache false has run, the fetched
\* entity is returned and no cache has gained or lost a key: client.guilds.cache,
\* client.channels.cache and each cached guild's roles and channels caches have the
\* keys they had.
C9_UncachedFetch ==
    [][ ( /\ Ran(last', {"roles.fetch", "channels.fetch", "guilds.fetch"})
          /\ last'.phase = "done"
          /\ ~last'.cache ) =>
          /\ DOMAIN guilds' = DOMAIN guilds
          /\ DOMAIN channels' = DOMAIN channels
          /\ \A gid \in DOMAIN guilds :
                /\ DOMAIN heap'[guilds[gid]].roles = DOMAIN heap[guilds[gid]].roles
                /\ DOMAIN heap'[guilds[gid]].channels = DOMAIN heap[guilds[gid]].channels ]_vars

\* C10: when the continuation of a create or an edit has run on the response, the
\* cache holds under the response's id an instance with the response's name and the
\* promise resolves with that instance; when the continuation of a delete has run,
\* the cache no longer holds the id and the promise resolves with the instance it
\* held.  (For a guild that is still cached, and a response of a type with a class.)
C10_MutationsThroughActions ==
    [][ (Ran(last', {"roles.create", "roles.edit", "channels.create", "channels.edit",
                     "channels.delete", "Guild.edit", "Guild.delete"})
         /\ last'.phase = "done"
         /\ last'.guild \in {guilds[gid] : gid \in DOMAIN guilds}) =>
          LET l == last'
              cache == CASE l.op \in {"roles.create", "roles.edit"} -> heap'[l.guild].roles
                         [] l.op \in {"channels.create", "channels.edit", "channels.delete"}
                               -> channels'
                         [] OTHER -> guilds'
          IN /\ l.op \in {"roles.create", "roles.edit", "channels.edit", "Guild.edit"} =>
                   /\ Get(cache, l.data.id) # NoRef
                   /\ l.ret = Get(cache, l.data.id)
                   /\ heap'[l.ret].name = l.data.name
             /\ (l.op = "channels.create" /\ ChannelClassOf(l.data) # "none") =>
                   /\ Get(cache, l.data.id) # NoRef
                   /\ l.ret = Get(cache, l.data.id)
                   /\ heap'[l.ret].name = l.data.name
             /\ (l.op = "channels.delete" /\ Get(channels, l.id) # NoRef) =>
                   /\ Get(cache, l.id) = NoRef
                   /\ l.ret = channels[l.id]
             /\ l.op = "Guild.delete" =>
                   /\ Get(cache, l.id) = NoRef
                   /\ l.ret = guilds[l.id] ]_vars

\* the classes whose _patch reads data.status
VoiceBased == {"VoiceChannel", "StageChannel"}

\* last' is the outcome of a VoiceChannelStatusUpdate that found its channel, a
\* voice-based one, in the cache
StatusUpdated ==
    /\ last'.op = "VoiceChannelStatusUpdate"
    /\ last'.data.id \in DOMAIN channels
    /\ heap[channels[last'.data.id]].class \in VoiceBased

\* C11: a VoiceChannelStatusUpdate on a cached voice-based channel returns as updated
\* the instance the cache held and still holds, now with the payload's status, and as
\* old an object that did not exist before and carries the status the channel had;
\* the handler emits voiceChannelStatusUpdate with the arguments (old, updated).
C11_StatusUpdateOldAndUpdated ==
    [][StatusUpdated =>
          /\ last'.ret = channels[last'.data.id]
          /\ channels'[last'.data.id] = last'.ret
          /\ heap'[last'.ret].status = last'.data.status
          /\ last'.old # last'.ret
          /\ last'.old \notin DOMAIN heap
          /\ heap'[last'.old].status = heap[last'.ret].status
          /\ last'.events = <<"voiceChannelStatusUpdate">>
          /\ last'.args = <<last'.old, last'.ret>>]_vars

\* a status update that replaced one status by another
C11_Witness ==
    /\ last.op = "VoiceChannelStatusUpdate"
    /\ last.ret # NoRef
    /\ heap[last.ret].class \in VoiceBased
    /\ heap[last.old].status = "live"
    /\ heap[last.ret].status = "away"

\* last' is the outcome of a ChannelDelete, VoiceChannelStatusUpdate or GuildDelete whose
\* payload names an id that is not in the cache
HandledUncached ==
    \/ last'.op = "ChannelDelete" /\ last'.id \notin DOMAIN channels
    \/ last'.op = "VoiceChannelStatusUpdate" /\ last'.data.id \notin DOMAIN channels
    \/ last'.op = "GuildDelete" /\ last'.id \notin DOMAIN guilds

\* C12: ChannelDelete, VoiceChannelStatusUpdate and GuildDelete on an id that is not
\* cached change no cache and no instance, emit nothing, schedule no cleanup and
\* return a result without an entity.
C12_UncachedIdDropped ==
    [][HandledUncached =>
          /\ Untouched
          /\ last'.events = <<>>
          /\ timers' = timers
          /\ last'.ret = NoRef
          /\ Has(last', "old") => last'.old = NoRef]_vars

\* a status update for a channel that is not cached, while other entities are
C12_Witness ==
    /\ last.op = "VoiceChannelStatusUpdate"
    /\ last.ret = NoRef
    /\ DOMAIN guilds # {}
    /\ DOMAIN channels # {}

\* the role instances in the cache of the guild g, and its channel instances that have
\* a position
CachedRoles(g) == {heap[g].roles[id] : id \in DOMAIN heap[g].roles}
CachedGuildChannels(g) ==
    {r \in {heap[g].channels[id] : id \in DOMAIN heap[g].channels} :
        heap[r].class # "ThreadChannel"}

\* the cached channels of g in the sortable group and under the parent of c
Siblings(g, c) ==
    {d \in CachedGuildChannels(g) :
        /\ heap[d].type \in SortableGroupTypes(heap[c].type)
        /\ heap[c].type = "GUILD_CATEGORY" \/ heap[d].parentId = heap[c].parentId}

\* every instance of S has been assigned a rawPosition
AllRaw(S) == \A r \in S : Has(heap[r], "rawPosition")

\* C13: among the roles cached in one guild, and among the cached sibling channels of
\* one sortable group and one parent, whatever rawPosition each of them has been
\* assigned, the computed positions are exactly 0..n-1, each taken once.
C13_PositionsStrict ==
    \A gid \in DOMAIN guilds :
        /\ AllRaw(CachedRoles(guilds[gid])) =>
              {RolePosition(Cur, r) : r \in CachedRoles(guilds[gid])}
                  = 0..(Cardinality(CachedRoles(guilds[gid])) - 1)
        /\ \A c \in CachedGuildChannels(guilds[gid]) :
              AllRaw(Siblings(guilds[gid], c)) =>
                 {ChannelPosition(Cur, guilds[gid], d) : d \in Siblings(guilds[gid], c)}
                     = 0..(Cardinality(Siblings(guilds[gid], c)) - 1)

\* two roles of one guild with the same rawPosition, and two sibling channels with the
\* same rawPosition
C13_Witness ==
    \E gid \in DOMAIN guilds :
        /\ \E r1, r2 \in CachedRoles(guilds[gid]) :
              r1 # r2 /\ AllRaw({r1, r2}) /\ heap[r1].rawPosition = heap[r2].rawPosition
        /\ \E c1 \in CachedGuildChannels(guilds[gid]) :
              \E c2 \in Siblings(guilds[gid], c1) :
                 c1 # c2 /\ AllRaw({c1, c2}) /\ heap[c1].rawPosition = heap[c2].rawPosition

\* C14: of two cached sibling channels with equal rawPosition, the one with the
\* numerically lower id has the lower computed position.
C14_ChannelTieBreak ==
    \A gid \in DOMAIN guilds :
        \A c1 \in CachedGuildChannels(guilds[gid]) :
            \A c2 \in Siblings(guilds[gid], c1) :
                RawSame(heap[c1], heap[c2]) /\ ToBigInt(heap[c1].id) < ToBigInt(heap[c2].id)
                    => ChannelPosition(Cur, guilds[gid], c1) < ChannelPosition(Cur, guilds[gid], c2)

\* channels 1 and 8 are siblings with the same assigned rawPosition
C14_Witness ==
    \E gid \in DOMAIN guilds :
        /\ {"1", "8"} \subseteq DOMAIN heap[guilds[gid]].channels
        /\ heap[guilds[gid]].channels["8"] \in Siblings(guilds[gid], heap[guilds[gid]].channels["1"])
        /\ AllRaw({heap[guilds[gid]].channels["1"], heap[guilds[gid]].channels["8"]})
        /\ heap[heap[guilds[gid]].channels["1"]].rawPosition
              = heap[heap[guilds[gid]].channels["8"]].rawPosition
        /\ ChannelPosition(Cur, guilds[gid], heap[guilds[gid]].channels["1"]) = 0
        /\ ChannelPosition(Cur, guilds[gid], heap[guilds[gid]].channels["8"]) = 1

\* C15: of two roles cached in one guild with equal rawPosition, the one with the
\* numerically lower id has the lower computed position, and comparePositions puts it
\* first (a negative result).
C15_RoleTieBreak ==
    \A gid \in DOMAIN guilds :
        \A r1, r2 \in CachedRoles(guilds[gid]) :
            RawSame(heap[r1], heap[r2]) /\ ToBigInt(heap[r1].id) < ToBigInt(heap[r2].id)
                => /\ RolePosition(Cur, r1) < RolePosition(Cur, r2)
                   /\ ComparePositions(Cur, guilds[gid], heap[r1].id, heap[r2].id) < 0

PositionList(l) ==
    IF l.op = "GuildRolesPositionUpdate" THEN l.data.roles ELSE l.data.channels
PositionCache(l) ==
    IF l.data.guild_id \notin DOMAIN guilds THEN EmptyRec
    ELSE IF l.op = "GuildRolesPositionUpdate" THEN heap[guilds[l.data.guild_id]].roles
    ELSE heap[guilds[l.data.guild_id]].channels

\* the instances the entries of the list resolve to
Listed(l) ==
    {PositionCache(l)[PositionList(l)[i].id] :
        i \in {j \in DOMAIN PositionList(l) : PositionList(l)[j].id \in DOMAIN PositionCache(l)}}

\* C19: a position update gives every listed entry that is cached its listed position
\* and skips the others; it changes no other field of any instance, and no cache gains
\* or loses an entry; with the guild not cached it changes nothing.
C19_PositionUpdateSkipsUncached ==
    [][last'.op \in {"GuildRolesPositionUpdate", "GuildChannelsPositionUpdate"} =>
          /\ guilds' = guilds
          /\ channels' = channels
          /\ \A i \in DOMAIN PositionList(last') :
                PositionList(last')[i].id \in DOMAIN PositionCache(last') =>
                   /\ Has(heap'[PositionCache(last')[PositionList(last')[i].id]], "rawPosition")
                   /\ heap'[PositionCache(last')[PositionList(last')[i].id]].rawPosition
                         = PositionList(last')[i].position
          /\ \A r \in DOMAIN heap' :
                /\ r \in DOMAIN heap
                /\ DOMAIN heap'[r] \ {"rawPosition"} = DOMAIN heap[r] \ {"rawPosition"}
                /\ \A f \in DOMAIN heap[r] \ {"rawPosition"} : heap'[r][f] = heap[r][f]
                /\ r \notin Listed(last') => heap'[r] = heap[r]]_vars

\* an update whose first entry is not cached has been applied to its second entry
C19_Witness ==
    /\ last.op = "GuildRolesPositionUpdate"
    /\ last.ret # NoRef
    /\ last.data.roles = <<[id |-> "10", position |-> 0], [id |-> "11", position |-> 1]>>
    /\ DOMAIN heap[last.ret].roles = {"11"}
    /\ heap[heap[last.ret].roles["11"]].rawPosition = 1

\* C20: of two position updates handled one after the other, the second decides the
\* rawPosition of every cached role or channel that both name, whichever of the two
\* the server produced first.
C20_ReceiptOrder ==
    [][/\ last'.op \in {"GuildRolesPositionUpdate", "GuildChannelsPositionUpdate"}
       /\ Has(last'.earlier, "sent")
       => \A i \in DOMAIN PositionList(last') :
             /\ PositionList(last')[i].id \in DOMAIN PositionCache(last')
             /\ \E j \in DOMAIN PositionList([op |-> last'.op, data |-> last'.earlier]) :
                   PositionList([op |-> last'.op, data |-> last'.earlier])[j].id
                       = PositionList(last')[i].id
             => /\ Has(heap'[PositionCache(last')[PositionList(last')[i].id]], "rawPosition")
                /\ heap'[PositionCache(last')[PositionList(last')[i].id]].rawPosition
                      = PositionList(last')[i].position]_vars

\* role 10 was given position 1 by an update produced at time 2 and then position 0
\* by an update produced at time 1, and has rawPosition 0
C20_Witness ==
    /\ last.op = "GuildRolesPositionUpdate"
    /\ last.ret # NoRef
    /\ Has(last.earlier, "sent")
    /\ last.earlier.sent = 2
    /\ last.earlier.roles = <<[id |-> "10", position |-> 1]>>
    /\ last.data.sent = 1
    /\ last.data.roles = <<[id |-> "10", position |-> 0]>>
    /\ "10" \in DOMAIN heap[last.ret].roles
    /\ heap[heap[last.ret].roles["10"]].rawPosition = 0

\* the methods C17 names
RejectingOps ==
    {"roles.create", "roles.edit", "roles.fetch", "channels.create", "channels.edit",
     "channels.fetch", "Guild.edit", "Guild.delete"}

\* C17: when REST rejects the request of RoleManager.create, edit or fetch, of
\* GuildChannelManager.create, edit or fetch, or of Guild.edit or Guild.delete, the
\* promise rejects with the error of REST, no handler has run (no cache and no instance
\* has changed, no cleanup is scheduled), no event is emitted, and the request is gone
\* without another one in its place.
C17_RestRejectionPropagates ==
    [][/\ Has(last', "rest")
       /\ last'.op \in RejectingOps
       => /\ last'.phase = "rejected"
          /\ last'.error = last'.rest
          /\ last'.ret = NoRef
          /\ last'.events = <<>>
          /\ Untouched
          /\ timers' = timers
          /\ pending' = {req \in pending : req.n # last'.n}]_vars

\* REST has rejected the request of Guild.delete, and the guild is still cached
C17_Witness ==
    /\ Has(last, "phase")
    /\ Has(last, "rest")
    /\ last.op = "Guild.delete"
    /\ last.error = "HTTPError"
    /\ last.id \in DOMAIN guilds
    /\ DOMAIN heap[guilds[last.id]].roles # {}

\* last' is the outcome of a call of RoleManager.edit, RoleManager.comparePositions,
\* GuildChannelManager.edit or GuildChannelManager.delete whose argument does not resolve:
\* to an entry of the manager's cache for the first three, to an id for delete
CalledUnresolved ==
    /\ Has(last', "arg")
    /\ last'.phase \in {"sent", "thrown", "returned"}
    /\ \/ /\ last'.op = "roles.edit"
          /\ Resolve(heap[last'.guild].roles, last'.arg) = NoRef
       \/ /\ last'.op = "roles.comparePositions"
          /\ \/ Resolve(heap[last'.guild].roles, last'.arg) = NoRef
             \/ Resolve(heap[last'.guild].roles, last'.arg2) = NoRef
       \/ /\ last'.op = "channels.edit"
          /\ Resolve(heap[last'.guild].channels, last'.arg) = NoRef
       \/ /\ last'.op = "channels.delete"
          /\ ResolveId(last'.arg) = Null

\* C18: RoleManager.edit, RoleManager.comparePositions, GuildChannelManager.edit and
\* GuildChannelManager.delete called with an argument that does not resolve fail with
\* INVALID_TYPE; no request is issued and no cache or instance changes.
C18_InvalidResolvable ==
    [][CalledUnresolved =>
          /\ last'.phase = "thrown"
          /\ last'.error = "INVALID_TYPE"
          /\ pending' = pending
          /\ last'.events = <<>>
          /\ Untouched]_vars

\* GuildChannelManager.delete has thrown on a value that is no id, while the guild has
\* channels cached
C18_Witness ==
    /\ Has(last, "arg")
    /\ last.op = "channels.delete"
    /\ last.phase = "thrown"
    /\ last.arg = Malformed
    /\ DOMAIN heap[last.guild].channels # {}

\* the handler of the step before has run again on the payload it had
HandledAgain ==
    /\ last'.op = last.op
    /\ \/ last'.op = "GuildRolesPositionUpdate" /\ last'.data = last.data
       \/ last'.op = "ChannelDelete" /\ last'.id = last.id
       \/ last'.op = "GuildDelete" /\ last'.id = last.id
                                   /\ last'.unavailable = last.unavailable

\* C21: a GuildRolesPositionUpdate, ChannelDelete or GuildDelete handled a second time
\* in a row with the same payload changes no cache and no instance, emits neither
\* channelDelete nor guildDelete and schedules no cleanup.
C21_RepeatedEventIdempotent ==
    [][HandledAgain =>
          /\ Untouched
          /\ timers' = timers
          /\ \A i \in DOMAIN last'.events :
                last'.events[i] \notin {"channelDelete", "guildDelete"}]_vars

\* a position update that gave a cached role a position has been handled twice in a row
C21_Witness ==
    /\ last.op = "GuildRolesPositionUpdate"
    /\ last.ret # NoRef
    /\ last.earlier = last.data
    /\ last.data.roles = <<[id |-> "11", position |-> 1]>>
    /\ "11" \in DOMAIN heap[last.ret].roles

\* C22: after GuildDelete has removed a guild from client.guilds.cache, every channel,
\* thread and role that read that guild before keeps its guildId and reads null as its
\* guild.
C22_GuildHeldById ==
    [][last'.op = "GuildDelete" /\ last'.ret # NoRef =>
          \A r \in DOMAIN heap \cap DOMAIN heap' :
             heap[r].class \in GuildScoped /\ GuildOf(Cur, r) = last'.ret =>
                /\ FieldSame(heap[r], heap'[r], "guildId")
                /\ GuildOf(CurNext, r) = NoRef]_vars

\* C22 for the guild channels alone, which keep the id only
C22_ChannelGuildById ==
    [][last'.op = "GuildDelete" /\ last'.ret # NoRef =>
          \A r \in DOMAIN heap \cap DOMAIN heap' :
             /\ heap[r].class \in GuildScoped \ {"Role", "ThreadChannel"}
             /\ GuildOf(Cur, r) = last'.ret
             => /\ FieldSame(heap[r], heap'[r], "guildId")
                /\ GuildOf(CurNext, r) = NoRef]_vars

\* C23: Guild.delete() and Guild.leave() resolve with the Guild instance they were
\* called on, whether the gateway GUILD_DELETE of that guild is handled before or after
\* the REST response.
C23_DeleteResolvesGuild ==
    [][Ran(last', {"Guild.delete"}) /\ last'.phase = "done" =>
          last'.ret # NoRef /\ last'.ret = last'.guild]_vars

\* the single permission flags below Permissions.ALL
Flags == {1, 2, 4, 8, 16, 32, 64, 128, 256, 512, 1024}

\* the roles whose permissions permissionsFor(x) starts from
RolesOfArg(g, x) ==
    IF Has(x, "roles") THEN x.roles ELSE {Resolve(heap[g].roles, x)} \ {NoRef}

\* the overwrites of channel c that permissionsFor(x) applies
AppliedOverwrites(c, g, x) ==
    {heap[c].permissionOverwrites[id] :
        id \in DOMAIN heap[c].permissionOverwrites
               \cap ({heap[g].id} \cup {heap[r].id : r \in RolesOfArg(g, x)}
                     \cup (IF Has(x, "roles") THEN {x.id} ELSE {}))}

\* x is a cached role, or a member with roles, holding ADMINISTRATOR
HoldsAdministrator(g, x) ==
    /\ RolesOfArg(g, x) # {}
    /\ \A r \in RolesOfArg(g, x) : Has(heap[r], "permissions")
    /\ BitHas(BitAny({heap[r].permissions : r \in RolesOfArg(g, x)}), ADMINISTRATOR)

\* C24: for a role, or the roles of a member, holding ADMINISTRATOR,
\* permissionsFor(x, true) returns all permissions whatever the channel's overwrites
\* deny, and permissionsFor(x, false) returns permissions without any flag that an
\* applicable overwrite denies and no applicable overwrite allows.
C24_AdministratorOverride ==
    last.op = "permissionsFor" /\ HoldsAdministrator(last.guild, last.arg) =>
        /\ last.result.kind = "value"
        /\ IF last.checkAdmin
           THEN last.result.value = PermissionsAll
           ELSE \A f \in Flags :
                   /\ \E o \in AppliedOverwrites(last.inst, last.guild, last.arg) :
                         BitHas(o.deny, f)
                   /\ \A o \in AppliedOverwrites(last.inst, last.guild, last.arg) :
                         ~BitHas(o.allow, f)
                   => ~BitHas(last.result.value, f)

\* permissionsFor(role, false) has taken a flag that an administrator role holds away
\* because the everyone overwrite denies it
C24_Witness ==
    /\ last.op = "permissionsFor"
    /\ ~last.checkAdmin
    /\ last.arg = [string |-> "10"]
    /\ HoldsAdministrator(last.guild, last.arg)
    /\ BitHas(heap[heap[last.guild].roles["10"]].permissions, 1)
    /\ \E o \in AppliedOverwrites(last.inst, last.guild, last.arg) : BitHas(o.deny, 1)
    /\ last.result.value = ADMINISTRATOR

\* the overwrite caches of a channel and of its parent agree at id: both hold equal
\* allow and deny, or one side alone holds an overwrite that is empty
OverwritesAgree(cv, pv, id) ==
    IF id \in DOMAIN cv /\ id \in DOMAIN pv
    THEN cv[id].allow = pv[id].allow /\ cv[id].deny = pv[id].deny
    ELSE IF id \in DOMAIN cv THEN EmptyOverwrite(cv[id]) ELSE EmptyOverwrite(pv[id])

\* C30: permissionsLocked is null when the channel has no cached parent; otherwise it
\* is true exactly when the channel's and the parent's overwrites agree at every
\* overwrite id of either, and false in every other case, without an error.
C30_PermissionsLocked ==
    last.op = "permissionsLocked" =>
        IF ParentOf(Cur, last.inst) = NoRef THEN last.value = Null
        ELSE last.value =
                 (IF \A id \in DOMAIN heap[last.inst].permissionOverwrites
                               \cup DOMAIN heap[ParentOf(Cur, last.inst)].permissionOverwrites :
                        OverwritesAgree(heap[last.inst].permissionOverwrites,
                                        heap[ParentOf(Cur, last.inst)].permissionOverwrites,
                                        id)
                  THEN True ELSE False)

\* the instances that the caches of channels hold: client.channels and the channel
\* caches of the cached guilds
CachedChannels ==
    {channels[id] : id \in DOMAIN channels}
    \cup UNION {{heap[guilds[gid]].channels[id] : id \in DOMAIN heap[guilds[gid]].channels} :
                   gid \in DOMAIN guilds}

\* C25: when a channel id has been removed by ChannelDelete and a payload with that id
\* is added next, or when Guild._patch clears the role cache and adds the payload's
\* roles, the cache maps the id to an instance that did not exist before, is not the
\* removed one and has deleted false, and no cache holds the removed instance.
C25_ReaddIsFresh ==
    [][ /\ ( /\ last.op = "ChannelDelete" /\ last.ret # NoRef
             /\ last'.op = "channels._add" /\ last'.data.id = last.id
             /\ last'.ret # NoRef ) =>
              /\ Get(channels', last.id) = last'.ret
              /\ last'.ret # last.ret
              /\ last'.ret \notin DOMAIN heap
              /\ heap'[last'.ret].deleted = False
              /\ last.ret \notin CachedChannels'
        /\ ( /\ last'.op \in {"guilds._add", "Guild._patch"} /\ last'.was # NoRef
             /\ Has(last'.data, "roles") ) =>
              \A id \in DOMAIN heap'[last'.was].roles :
                 /\ heap'[last'.was].roles[id] \notin DOMAIN heap
                 /\ heap'[heap'[last'.was].roles[id]].deleted = False ]_vars

\* a channel payload has been added right after ChannelDelete removed its id, and the
\* cache holds another instance than the removed one
C25_Witness ==
    /\ last.op = "channels._add"
    /\ last.removed # NoRef
    /\ last.ret # NoRef
    /\ last.ret # last.removed
    /\ channels[last.data.id] = last.ret

\* C26: GuildManager.resolveId returns a guild id or null for every argument, also for
\* a guild channel or role whose guild is not cached; it raises no error, and when
\* GuildManager.resolve yields a guild it returns that guild's id.
C26_ResolveIdTotal ==
    last.op = "guilds.resolveId" =>
        /\ last.result.kind = "value"
        /\ last.result.value \in GuildIds \cup {Null}
        /\ last.resolved # NoRef => last.result.value = heap[last.resolved].id

\* C27: the cleanup that GuildDelete schedules is a step of its own, after a GuildDelete
\* that left client.channels and the guild's caches alone: when the guild id is cached
\* again it changes nothing, and otherwise no channel id of the deleted guild is left
\* in client.channels and every cache of the deleted guild named in cleanData is empty.
C27_CleanupLater ==
    [][ /\ (last'.op = "GuildDelete" /\ last'.ret # NoRef) =>
              /\ last'.ret \in timers'
              /\ channels' = channels
              /\ heap'[last'.ret] = heap[last'.ret]
        /\ last'.op = "handleDeletedServer" =>
              /\ last'.was \in timers /\ last'.was \notin timers'
              /\ IF heap[last'.was].id \in DOMAIN guilds THEN Untouched
                 ELSE /\ guilds' = guilds
                      /\ DOMAIN channels' = DOMAIN channels \ DOMAIN heap[last'.was].channels
                      /\ \A f \in CleanData \cap DOMAIN heap'[last'.was] :
                            heap'[last'.was][f] = EmptyRec ]_vars

\* a cleanup has run for a guild that is not cached again and whose channels and
\* roles were cached: its role cache is empty and its channel ids are gone
C27_Witness ==
    /\ last.op = "handleDeletedServer"
    /\ heap[last.was].id \notin DOMAIN guilds
    /\ {"roles", "voiceStates"} \subseteq last.cleared
    /\ heap[last.was].roles = EmptyRec
    /\ heap[last.was].channels # EmptyRec
    /\ \A id \in DOMAIN heap[last.was].channels : id \notin DOMAIN channels

\* C28: GuildDelete with unavailable true on a cached guild leaves the guild in
\* client.guilds.cache with its caches as they were, sets available to false, emits
\* guildUnavailable and not guildDelete, returns {guild: null} and schedules no cleanup.
C28_UnavailableKeepsGuild ==
    [][last'.op = "GuildDelete" /\ last'.unavailable /\ last'.was # NoRef =>
          /\ guilds' = guilds
          /\ channels' = channels
          /\ guilds'[last'.id] = last'.was
          /\ heap'[last'.was] = Put(heap[last'.was], "available", False)
          /\ \A r \in DOMAIN heap' \ {last'.was} : r \in DOMAIN heap /\ heap'[r] = heap[r]
          /\ last'.events = <<"guildUnavailable">>
          /\ last'.ret = NoRef
          /\ timers' = timers]_vars

\* an unavailable GuildDelete has been handled for a cached guild with roles and
\* channels
C28_Witness ==
    /\ last.op = "GuildDelete"
    /\ last.unavailable
    /\ last.was # NoRef
    /\ Get(guilds, last.id) = last.was
    /\ heap[last.was].available = False
    /\ heap[last.was].roles # EmptyRec
    /\ heap[last.was].channels # EmptyRec
    /\ timers = {}

\* the two roles that the last comparePositions call resolved
ComparedRole(arg) == heap[heap[last.guild].roles[arg.string]]

C31_FetchUnowned ==
    [][ /\ Ran(last', {"channels.fetch"})
        /\ last'.phase \in {"done", "rejected"}
        /\ Has(last', "data")
        /\ last'.data.guild_id # heap[last'.guild].id
        => /\ last'.phase = "rejected"
           /\ last'.error = "GUILD_CHANNEL_UNOWNED"
           /\ last'.ret = NoRef
           /\ Untouched ]_vars

\* a fetch of channel 2 has been answered with a channel of guild 2
C31_Witness ==
    /\ Ran(last, {"channels.fetch"})
    /\ last.phase = "rejected"
    /\ last.error = "GUILD_CHANNEL_UNOWNED"
    /\ last.data.guild_id = "2"
    /\ heap[last.guild].id = "1"
    /\ last.data.id \notin DOMAIN channels

\* wire key -> field of the nullable fields of a voice state other than streaming
VoiceStateNullable ==
    {<<"deaf", "serverDeaf">>, <<"mute", "serverMute">>, <<"self_deaf", "selfDeaf">>,
     <<"self_mute", "selfMute">>, <<"self_video", "selfVideo">>,
     <<"session_id", "sessionId">>, <<"channel_id", "channelId">>}

\* C32: VoiceState._patch assigns streaming only when the payload has self_video
\* (self_stream, or false without it) and otherwise leaves it as it was; each of
\* serverDeaf, serverMute, selfDeaf, selfMute, selfVideo, sessionId and channelId
\* takes the payload's value when its key is present and otherwise keeps what it
\* held, which is null only as long as no payload has set it.
C32_VoiceStateStreaming ==
    kind = "VoiceState" =>
        /\ \A kf \in VoiceStateNullable : Has(ent, kf[2])
        /\ Has(ent, "streaming")
        /\ hist # <<>> =>
              /\ ent.streaming = IF Has(LastData, "self_video")
                                 THEN OrElse(LastData, "self_stream", False)
                                 ELSE prev.streaming
              /\ \A kf \in VoiceStateNullable :
                    ent[kf[2]] = IF Has(LastData, kf[1]) THEN LastData[kf[1]]
                                 ELSE prev[kf[2]]

\* a voice state that streams has been patched by a payload without self_video and
\* still streams, while a field never set is null
C32_Witness ==
    /\ kind = "VoiceState"
    /\ Len(hist) = 1
    /\ ~Has(LastData, "self_video")
    /\ Has(LastData, "deaf")
    /\ prev.streaming = True
    /\ ent.streaming = True
    /\ ent.serverDeaf = LastData.deaf

\* C33: whatever the order of guild creations, deletions, re-creations and deferred
\* cleanups, every channel in the channel cache of a guild that client.guilds.cache
\* holds is in client.channels.cache under the same id.
C33_CachedGuildChannelsKept ==
    \A gid \in DOMAIN guilds :
        \A id \in DOMAIN heap[guilds[gid]].channels :
            /\ id \in DOMAIN channels
            /\ channels[id] = heap[guilds[gid]].channels[id]

\* the cleanup of an earlier deletion has run after the guild was added back with
\* its channels
C33_Witness ==
    /\ last.op = "handleDeletedServer"
    /\ heap[last.was].id \in DOMAIN guilds
    /\ guilds[heap[last.was].id] # last.was
    /\ heap[last.was].channels # EmptyRec
    /\ heap[guilds[heap[last.was].id]].channels # EmptyRec

\* the step has run GuildDeleteAction.handle: for a gateway GUILD_DELETE, or in the
\* continuation of Guild.delete() or Guild.leave()
DeleteHandled(l) ==
    l.op = "GuildDelete" \/ (Ran(l, {"Guild.delete"}) /\ l.phase = "done")

DeleteEmitted(l) ==
    DeleteHandled(l) /\ \E i \in DOMAIN l.events : l.events[i] = "guildDelete"

\* C34: GuildDeleteAction.handle, whether run for the gateway's GUILD_DELETE or in the
\* continuation of Guild.delete() or Guild.leave(), emits guildDelete and schedules
\* a cleanup exactly when it finds the guild cached, and then removes it from the
\* cache; so of the gateway event and the REST response of one deletion, in either
\* order, the first emits guildDelete once and schedules one cleanup and the second
\* emits nothing and schedules nothing.
C34_DeleteOnce ==
    [][DeleteHandled(last') =>
          /\ DeleteEmitted(last') <=>
                /\ last'.id \in DOMAIN guilds
                /\ ~(Has(last', "unavailable") /\ last'.unavailable)
          /\ DeleteEmitted(last') =>
                /\ last'.events = <<"guildDelete">>
                /\ guilds[last'.id] \notin timers
                /\ timers' = timers \cup {guilds[last'.id]}
                /\ last'.id \notin DOMAIN guilds'
          /\ ~DeleteEmitted(last') => timers' = timers
          /\ (DeleteEmitted(last) /\ last.id = last'.id) => ~DeleteEmitted(last')
          /\ Ran(last', {"Guild.delete"}) =>
                \A gid \in DOMAIN guilds' : guilds'[gid] # last'.guild]_vars

\* Guild.delete() has resolved after the gateway event of its guild was handled:
\* the continuation emitted nothing and the one cleanup is still scheduled
C34_Witness ==
    /\ Ran(last, {"Guild.delete"})
    /\ last.phase = "done"
    /\ last.events = <<>>
    /\ timers = {last.guild}

\* C35: while the listeners of channelDelete run, client.channels.resolve(id) yields
\* the channel, and after ChannelDelete.handle has returned it yields null; while the
\* listeners of guildDelete run, the guild is already out of client.guilds.cache.
C35_EmitOrder ==
    [][ /\ (last'.op = "ChannelDelete" /\ last'.events # <<>>) =>
              /\ last'.events = <<"channelDelete">>
              /\ last'.seen # NoRef
              /\ last'.seen = channels[last'.id]
              /\ last'.seen = last'.ret
              /\ Get(channels', last'.id) = NoRef
        /\ (last'.op = "GuildDelete" /\ last'.events = <<"guildDelete">>) =>
              /\ Get(guilds, last'.id) # NoRef
              /\ last'.seen = NoRef
              /\ Get(guilds', last'.id) = NoRef ]_vars

\* channelDelete has been emitted for a cached channel
C35_Witness ==
    /\ last.op = "ChannelDelete"
    /\ last.events = <<"channelDelete">>
    /\ last.seen = last.ret
    /\ last.seen # NoRef
    /\ last.id \notin DOMAIN channels

\* the step changes no cache and no instance the store held before it
CachesKept ==
    /\ guilds' = guilds
    /\ channels' = channels
    /\ \A r \in DOMAIN heap' \cap DOMAIN heap : heap'[r] = heap[r]

\* C36: RoleManager.edit changes neither the role cache nor the cached Role: the
\* request leaves the store as it is, and the continuation resolves with a new
\* instance, the cached role's fields patched with the response, that is no cache's
\* entry, while the cached role's fields and the cache's keys stay as they were.
C36_EditReturnsClone ==
    [][ (Ran(last', {"roles.edit"}) /\ last'.phase \in {"sent", "done"}) =>
          /\ CachesKept
          /\ last'.guild \in DOMAIN heap /\ last'.guild \in DOMAIN heap'
          /\ DOMAIN heap'[last'.guild].roles = DOMAIN heap[last'.guild].roles
          /\ heap'[last'.guild].roles = heap[last'.guild].roles
          /\ heap'[last'.inst] = heap[last'.inst]
          /\ last'.phase = "sent" => DOMAIN heap' \subseteq DOMAIN heap
          /\ last'.phase = "done" =>
                /\ last'.ret # NoRef
                /\ last'.ret # last'.inst
                /\ last'.ret \notin DOMAIN heap
                /\ DOMAIN heap' \ {last'.ret} \subseteq DOMAIN heap
                /\ heap'[last'.ret] = RolePatch(heap[last'.inst], last'.data)
                /\ \A r \in DOMAIN heap' :
                      heap'[r].class = "Guild" =>
                         \A k \in DOMAIN heap'[r].roles : heap'[r].roles[k] # last'.ret ]_vars

\* an edit has resolved with a clone whose name differs from the cached role's,
\* which the guild's cache still holds under its id
C36_Witness ==
    /\ Ran(last, {"roles.edit"})
    /\ last.phase = "done"
    /\ last.ret # last.inst
    /\ Get(heap[last.guild].roles, last.id) = last.inst
    /\ Has(heap[last.inst], "name") /\ Has(heap[last.ret], "name")
    /\ heap[last.ret].name # heap[last.inst].name

\* the overwrite cache of the channel object r in heap h
OverwriteCache(h, r) == h[h[r].permissionOverwrites].cache

\* C37: the clone GuildChannel._clone returns has an overwrite manager of its own:
\* when the original is then patched with a permission_overwrites array, the
\* original's cache holds exactly the ids of the array, and the clone's cache holds
\* the entries the original's held before the patch.
C37_CloneOwnsOverwrites ==
    [][ (last'.op = "GuildChannel._update" /\ Has(last'.data, "permission_overwrites")) =>
          /\ last'.ret \notin DOMAIN heap
          /\ heap'[last'.ret].permissionOverwrites # heap'[last'.inst].permissionOverwrites
          /\ heap'[last'.inst].permissionOverwrites = heap[last'.inst].permissionOverwrites
          /\ heap'[heap'[last'.ret].permissionOverwrites].channel = last'.ret
          /\ DOMAIN OverwriteCache(heap', last'.inst) =
                {last'.data.permission_overwrites[i].id :
                    i \in DOMAIN last'.data.permission_overwrites}
          /\ OverwriteCache(heap', last'.inst) =
                AddOverwrites(EmptyRec, last'.data.permission_overwrites)
          /\ OverwriteCache(heap', last'.ret) = OverwriteCache(heap, last'.inst) ]_vars

\* an update has replaced a non-empty overwrite cache by one of other ids, and the
\* clone holds the former entries
C37_Witness ==
    /\ last.op = "GuildChannel._update"
    /\ Has(last.data, "permission_overwrites")
    /\ OverwriteCache(heap, last.ret) # EmptyRec
    /\ DOMAIN OverwriteCache(heap, last.ret) # DOMAIN OverwriteCache(heap, last.inst)
    /\ DOMAIN OverwriteCache(heap, last.inst) # {}

\* every entry of the cache is an instance whose id is the key it is stored under
KeyedById(h, cache) ==
    \A k \in DOMAIN cache :
        cache[k] \in DOMAIN h /\ Has(h[cache[k]], "id") /\ h[cache[k]].id = k

\* client.guilds.cache, client.channels.cache and the role and channel caches of
\* every guild are keyed by the ids of their entries
KeyIsId ==
    /\ KeyedById(heap, guilds)
    /\ KeyedById(heap, channels)
    /\ \A g \in DOMAIN heap :
          heap[g].class = "Guild" =>
             /\ KeyedById(heap, heap[g].roles)
             /\ KeyedById(heap, heap[g].channels)

\* the step leaves the id of every guild, role and channel it keeps as it was
IdKept ==
    \A r \in DOMAIN heap \cap DOMAIN heap' :
        heap[r].class \in GuildScoped \cup {"Guild"} =>
           /\ heap'[r].class = heap[r].class
           /\ Has(heap[r], "id") /\ Has(heap'[r], "id")
           /\ heap'[r].id = heap[r].id

\* C38: in every reachable state each entry of a guild, role or guild-channel cache
\* is stored under the key equal to the entity's id, and no step changes the id of an
\* instance, though every _patch assigns it from the payload.
C38_IdIsKey == []KeyIsId /\ [][IdKept]_vars

\* a cached role has been patched again by a payload that changed its name, and is
\* cached under its id
C38_Witness ==
    /\ last.op = "roles._add"
    /\ last.was # NoRef
    /\ last.ret = last.was
    /\ Get(heap[last.guild].roles, last.data.id) = last.ret
    /\ heap[last.ret].id = last.data.id
    /\ Has(last.data, "name") /\ heap[last.ret].name = last.data.name

====
